---- MODULE Spec2Model ----
(***************************************************************************)
(* The WhatsApp instance monitor as state machines: the Health Watchdog    *)
(* (class HealthMonitor, src/unnamed/part_001; specification Spec) and the *)
(* reconcile engine of src/server.js (specifications SpecServer and        *)
(* SpecSingle), with the stats and logout endpoints (SpecApi) and the cron *)
(* job and overlapping passes (SpecCron).  The two are separate processes  *)
(* and share no state.                                                     *)
(*                                                                         *)
(* Every `await` of the source is a suspension point: one action of the    *)
(* model is the code that runs between two suspension points.  An          *)
(* activation of checkHealth is a slot of `polls`, an activation of        *)
(* checkRecoveryAfterRestart a slot of `recs`.                             *)
(*                                                                         *)
(* Time is the millisecond clock Date.now(), advanced in steps of          *)
(* TimeStep.  The two HTTP calls (axios.get, axios.post) carry a 10 s      *)
(* timeout, less than TimeStep, so they complete within the clock step in  *)
(* which they were issued; restartF22LabsApp takes any number of steps.    *)
(***************************************************************************)
EXTENDS Integers, Sequences, FiniteSets, TLC

\* ---------------------------------------------------------------- bounds
MaxTicks == 8          \* the clock stops after MaxTicks steps of TimeStep
MaxPolls == 2          \* checkHealth activations in progress at once
MaxRecs  == 1          \* checkRecoveryAfterRestart activations in progress
MaxInstances == 2      \* instances in the remote listing

\* ------------------------------------------------- constants of the code
checkInterval   == 120000     \* config.checkInterval
restartCooldown == 300000     \* config.restartCooldown
recoveryWait    == 60000      \* the setTimeout delay of handleHealthFailure

TimeStep == recoveryWait      \* the clock's granularity: the smallest timer
StartTime == TimeStep         \* Date.now() at process start (any value > 0)
EndTime == StartTime + MaxTicks * TimeStep

VARIABLES
    now,                  \* Date.now()
    proc,                 \* "new" | "running" | "exited" | "crashed"
    isRunning,            \* this.isRunning
    intervalId,           \* 0 (null) or the time the interval timer fires next
    lastStatus,           \* this.lastStatus
    consecutiveFailures,  \* this.consecutiveFailures
    restartAttempted,     \* this.restartAttempted
    lastRestartTime,      \* this.lastRestartTime, 0 for null (both are falsy)
    timeouts,             \* due times of the pending one-shot setTimeout timers
    polls,                \* activations of checkHealth
    recs,                 \* activations of checkRecoveryAfterRestart
    restartCalls,         \* history: invocations of restartF22LabsApp so far
    lastInvoke,           \* history: time of the latest invocation, 0 if none
    everHealthy           \* history: some poll or confirmation observed 200

vars == <<now, proc, isRunning, intervalId, lastStatus, consecutiveFailures,
          restartAttempted, lastRestartTime, timeouts, polls, recs,
          restartCalls, lastInvoke, everHealthy>>

wd == <<lastStatus, consecutiveFailures, restartAttempted, lastRestartTime>>
hist == <<restartCalls, lastInvoke, everHealthy>>

\* ------------------------------------------- the reconcile engine's state
\* (src/server.js; the watchdog is another process and shares none of it)
VARIABLES
    remote,            \* the listing the CodeChat API holds, in its order
    pc,                \* the call checkAndReconnectInstances is suspended on
    instances,         \* its local `instances` (<<>> before the fetch)
    idx,               \* its loop index i, counted from 1
    where,             \* the try block it is in: "null", "close", "qr", "catch"
    openCount,         \* its local openCount
    closedCount,       \* its local closedCount
    reconnectedCount,  \* its local reconnectedCount
    loggedOutCount,    \* its local loggedOutCount
    calls,             \* history: per instance, the calls made and their answers
    result,            \* what checkAndReconnectInstances returned
    one                \* the GET /check-individual-instance/:instanceId request

server == <<remote, pc, instances, idx, where, openCount, closedCount,
            reconnectedCount, loggedOutCount, calls, result, one>>

\* ---------------------------- the user store and the other HTTP requests
VARIABLES
    users,             \* per instance key, the status of its User record
    earlier,           \* the previous GET /check-individual-instance request
    req,               \* the request to a stats or logout endpoint
    other,             \* the locals of a second, overlapping pass
    clock,             \* minutes since the process started, at an hour's top
    cronStart,         \* process.env.CRON_START === 'true'
    firings            \* the times at which the cron job has fired

sched == <<other, clock, cronStart, firings>>
more == <<users, earlier, req, sched>>

PollIds == 1..MaxPolls
RecIds  == 1..MaxRecs

\* What the health URL answers to checkHealth (validateStatus: status < 500):
\* 200; another status below 500 (the else branch, inside the try block);
\* a status >= 500 or a transport error (axios throws: the catch block).
PollResults == {"200", "non200", "error"}
\* ... and to checkRecoveryAfterRestart (default validateStatus, 2xx only).
RecResults == {"200", "non200", "error"}

\* A free slot.  The fields after pc are the activation's own record of what
\* it saw and did: result, the counter before its response, whether the code is
\* inside checkHealth's try block, the notifications it sent (in order), its
\* invocations of the recovery trigger, the posts that failed, and the state
\* it found on entering handleHealthFailure (the counter, the gate, the time
\* of the last restart and the clock).
IdlePoll == [pc |-> "idle", result |-> "none", cfBefore |-> 0, inTry |-> FALSE,
             notes |-> <<>>, restarts |-> 0, postFails |-> 0,
             entered |-> FALSE, cfEntry |-> 0, raEntry |-> FALSE,
             lrtEntry |-> 0, nowEntry |-> 0]
IdleRec == [pc |-> "idle", result |-> "none", notes |-> <<>>, gets |-> 0,
            postFails |-> 0]

Count(seq, x) == Cardinality({i \in DOMAIN seq : seq[i] = x})

FreePoll == {p \in PollIds : polls[p].pc = "idle"}
FreeRec  == {c \in RecIds : recs[c].pc = "idle"}
Lowest(S) == CHOOSE x \in S : \A y \in S : x <= y


\* ------------------------------------------ the reconcile engine's data
\* An entry of the remote listing: its name (here its place in the listing),
\* its connectionStatus and whether it carries its Auth object (the token).
ConnectionStatuses == {"ONLINE", "OFFLINE"}
Names == 1..MaxInstances
Listings ==
    UNION {{s \in [1..n -> [name : 1..n, connectionStatus : ConnectionStatuses,
                            Auth : BOOLEAN]] : \A k \in 1..n : s[k].name = k}
           : n \in 0..MaxInstances}

\* What GET /instance/fetchInstance/:name answers: Whatsapp.connection.state
\* ("null" when it is null, "absent" when the body has no such field), or a
\* failure: "missing" is the 400 whose message holds 'does not exist or is
\* not connected', "error" any other failure (transport error, 5xx, 4xx).
DetailResponses ==
    {"open", "connecting", "close", "null", "absent", "missing", "error"}
\* What GET /instance/connect/:name answers: a body without base64, a body
\* with base64 (the QR pairing payload), or a failure.
ConnectResponses == {"connected", "base64", "error"}
\* What DELETE /instance/logout/:name answers.
LogoutResponses == {"ok", "error"}
\* What User.findOneAndUpdate does: a record is updated and returned, no record
\* matches (null is returned), or the store fails.
StoreResponses == {"updated", "norecord", "error"}

\* No call made yet: the history of the listing fetch (at 0) and of each instance.
NoCalls == [n \in 0..MaxInstances |-> <<>>]
NoResult == [success |-> FALSE, message |-> "none", error |-> "none",
             statistics |-> <<>>]
\* The request GET /check-individual-instance/:instanceId that is not yet made.
IdleOne == [pc |-> "idle", instanceId |-> 0, listed |-> "none",
            calls |-> <<>>, status |-> 0,
            message |-> "none", whatsappState |-> "none",
            needsReconnection |-> "absent", reconnected |-> "absent",
            loggedOut |-> "absent"]

\* The server with no pass and no request made, on a given remote listing.
ServerOn(listing) ==
    /\ remote = listing
    /\ pc = "idle"
    /\ instances = <<>>
    /\ idx = 0
    /\ where = "none"
    /\ openCount = 0
    /\ closedCount = 0
    /\ reconnectedCount = 0
    /\ loggedOutCount = 0
    /\ calls = NoCalls
    /\ result = NoResult
    /\ one = IdleOne

\* A request to a stats or logout endpoint that is not yet made.  `rows` are
\* the instances of the answer's body, `after` tells that the user lookup of
\* the request came after a write of markInstanceOffline to the same key.
IdleReq == [endpoint |-> "none", pc |-> "idle", by |-> "none", key |-> 0,
            mongoStatus |-> "none", after |-> FALSE, calls |-> <<>>,
            rows |-> <<>>, status |-> 0, message |-> "none", processed |-> 0]

\* The user store: the record of an instance key has a status, or there is
\* no record ("none").
NoUsers == [n \in Names |-> "none"]
UserStores == [Names -> {"none", "ONLINE"}]

\* No request to another endpoint was made, on a given user store.
StoreOn(store) ==
    /\ users = store
    /\ earlier = IdleOne
    /\ req = IdleReq

\* The locals of an invocation of checkAndReconnectInstances not yet made;
\* `first` tells that the record holds the pass that was invoked first.
IdlePass == [pc |-> "idle", instances |-> <<>>, idx |-> 0, where |-> "none",
             openCount |-> 0, closedCount |-> 0, reconnectedCount |-> 0,
             loggedOutCount |-> 0, calls |-> NoCalls, result |-> NoResult,
             first |-> FALSE]
\* No second pass, and the cron job scheduled or not: the process has just
\* started.
CronOn(scheduled) ==
    /\ other = IdlePass
    /\ clock = 0
    /\ cronStart = scheduled
    /\ firings = <<>>
ServerIdle == ServerOn(<<>>) /\ StoreOn(NoUsers) /\ CronOn(FALSE)

TypeOK ==
    /\ now \in StartTime..EndTime
    /\ proc \in {"new", "running", "exited", "crashed"}
    /\ isRunning \in BOOLEAN
    /\ intervalId \in 0..(EndTime + checkInterval)
    /\ lastStatus \in {"unknown", "healthy", "unhealthy"}
    /\ consecutiveFailures \in Nat
    /\ restartAttempted \in BOOLEAN
    /\ lastRestartTime \in 0..EndTime
    /\ restartCalls \in Nat
    /\ everHealthy \in BOOLEAN

\* constructor
constructor ==
    /\ now = StartTime
    /\ proc = "new"
    /\ isRunning = FALSE
    /\ intervalId = 0
    /\ lastStatus = "unknown"
    /\ consecutiveFailures = 0
    /\ restartAttempted = FALSE
    /\ lastRestartTime = 0
    /\ timeouts = <<>>
    /\ polls = [p \in PollIds |-> IdlePoll]
    /\ recs = [c \in RecIds |-> IdleRec]
    /\ restartCalls = 0
    /\ lastInvoke = 0
    /\ everHealthy = FALSE

\* The watchdog process on its own: the server's state plays no part.
Init == constructor /\ ServerIdle

\* ------------------------------------------------------ pieces of the code

\* sendSlackMessage without its try/catch: a failed post leaves the call.
sendSlackMessageNoCatch(postOk) == IF postOk THEN "returned" ELSE "thrown"

\* sendSlackMessage: how the call ends, given whether axios.post succeeded.
\* The try/catch around the post swallows its failure.
sendSlackMessage(postOk) == "returned"

\* canAttemptRestart
canAttemptRestart ==
    IF lastRestartTime = 0 THEN TRUE
    ELSE now - lastRestartTime > restartCooldown

\* The restart branch taken on any failure while the cooldown is over,
\* ignoring the restartAttempted gate and the failure count.
ShouldRestartIgnoringGate == consecutiveFailures >= 1 /\ canAttemptRestart

\* The restart branch taken only while no restart has ever been recorded.
ShouldRestartFirstOnly ==
    consecutiveFailures = 1 /\ ~restartAttempted /\ lastRestartTime = 0

\* handleHealthFailure, the condition of the restart branch
ShouldRestart ==
    consecutiveFailures = 1 /\ ~restartAttempted /\ canAttemptRestart

\* The manual-intervention alert one failure late.
NeedsManualAfterThree(cf, attempted) == cf > 3 /\ attempted

\* handleHealthFailure, the condition of the manual-intervention alert
NeedsManual(cf, attempted) == cf >= 3 /\ attempted

\* handleHealthFailure from the manual-intervention check to its next await
\* (or to the end of checkHealth), on the activation record `r`.
ManualCheck(r, cf, attempted) ==
    IF NeedsManual(cf, attempted)
    THEN [r EXCEPT !.pc = "slackManual", !.notes = Append(@, "manual")]
    ELSE [r EXCEPT !.pc = "done"]

\* The failure count set to 1 instead of incremented.
FailureCountRestart(cf) == 1

\* checkRecoveryAfterRestart accepting any 2xx answer as a recovery.
RecoveryConfirmedAny2xx(res) == res \in {"200", "non200"}

\* checkRecoveryAfterRestart, response.status === 200
RecoveryConfirmed(res) == res = "200"

\* checkHealth, this.consecutiveFailures++
FailureCount(cf) == cf + 1

\* checkHealth, the failure path (the else branch and the catch block): count
\* the failure and send the failure notification.
Failure(r, inTry) ==
    [r EXCEPT !.pc = "slackFailed", !.inTry = inTry,
              !.notes = Append(@, "failed")]

Posted(r, ok) == [r EXCEPT !.postFails = IF ok THEN @ ELSE @ + 1]

\* An exception raised in activation p after an await.  Inside checkHealth's
\* try block it lands in the catch block, which counts a failure; anywhere else
\* it rejects the promise nobody awaits, and the process dies of the unhandled
\* rejection.
Thrown(p, r) ==
    IF r.inTry
    THEN /\ consecutiveFailures' = FailureCount(consecutiveFailures)
         /\ lastStatus' = "unhealthy"
         /\ polls' = [polls EXCEPT ![p] = Failure(r, FALSE)]
         /\ UNCHANGED <<proc, restartAttempted, lastRestartTime>>
    ELSE /\ polls' = [polls EXCEPT ![p] = [r EXCEPT !.pc = "rejected"]]
         /\ proc' = "crashed"
         /\ UNCHANGED wd

\* ---------------------------------------------------------------- actions

\* start(), called once by the main program: the initial check and the timer
start ==
    /\ proc = "new"
    /\ ~isRunning
    /\ isRunning' = TRUE
    /\ proc' = "running"
    /\ polls' = [polls EXCEPT ![Lowest(FreePoll)] = [IdlePoll EXCEPT !.pc = "get"]]
    /\ intervalId' = now + checkInterval
    /\ UNCHANGED <<now, wd, timeouts, recs, hist>>
    /\ UNCHANGED server
    /\ UNCHANGED more

\* the setInterval callback: a new checkHealth, not waiting for the previous
IntervalFire ==
    /\ proc = "running"
    /\ intervalId # 0
    /\ now >= intervalId
    /\ FreePoll # {}
    /\ polls' = [polls EXCEPT ![Lowest(FreePoll)] = [IdlePoll EXCEPT !.pc = "get"]]
    /\ intervalId' = intervalId + checkInterval
    /\ UNCHANGED <<now, proc, isRunning, wd, timeouts, recs, hist>>
    /\ UNCHANGED server
    /\ UNCHANGED more

\* checkHealth: the answer of the health URL arrives
checkHealth(p, res) ==
    /\ proc = "running"
    /\ polls[p].pc = "get"
    /\ LET r == [polls[p] EXCEPT !.result = res, !.cfBefore = consecutiveFailures,
                                 !.inTry = (res # "error")]
       IN IF res = "200"
          THEN /\ everHealthy' = TRUE
               /\ IF lastStatus # "healthy" /\ consecutiveFailures > 0
                  THEN /\ polls' = [polls EXCEPT ![p] =
                             [r EXCEPT !.pc = "slackRecovered",
                                       !.notes = Append(@, "recovered")]]
                       /\ UNCHANGED wd
                  ELSE /\ polls' = [polls EXCEPT ![p] = [r EXCEPT !.pc = "done"]]
                       /\ consecutiveFailures' =
                             IF lastStatus # "healthy" THEN 0 ELSE consecutiveFailures
                       /\ restartAttempted' =
                             IF lastStatus # "healthy" THEN FALSE ELSE restartAttempted
                       /\ lastStatus' = "healthy"
                       /\ UNCHANGED lastRestartTime
          ELSE /\ consecutiveFailures' = FailureCount(consecutiveFailures)
               /\ lastStatus' = "unhealthy"
               /\ polls' = [polls EXCEPT ![p] = Failure(r, res # "error")]
               /\ UNCHANGED <<restartAttempted, lastRestartTime, everHealthy>>
    /\ UNCHANGED <<now, proc, isRunning, intervalId, timeouts, recs,
                   restartCalls, lastInvoke>>
    /\ UNCHANGED server
    /\ UNCHANGED more

\* checkHealth: the recovery notification has been posted; reset the tracking
checkHealthRecovered(p, ok) ==
    /\ proc = "running"
    /\ polls[p].pc = "slackRecovered"
    /\ LET r == Posted(polls[p], ok)
       IN IF sendSlackMessage(ok) = "thrown"
          THEN Thrown(p, r)
          ELSE /\ consecutiveFailures' = 0
               /\ restartAttempted' = FALSE
               /\ lastStatus' = "healthy"
               /\ polls' = [polls EXCEPT ![p] = [r EXCEPT !.pc = "done"]]
               /\ UNCHANGED <<proc, lastRestartTime>>
    /\ UNCHANGED <<now, isRunning, intervalId, timeouts, recs, hist>>
    /\ UNCHANGED server
    /\ UNCHANGED more

\* handleHealthFailure, entered once the failure notification has been posted
handleHealthFailure(p, ok) ==
    /\ proc = "running"
    /\ polls[p].pc = "slackFailed"
    /\ LET r == [Posted(polls[p], ok) EXCEPT
                    !.entered = TRUE,
                    !.cfEntry = consecutiveFailures,
                    !.raEntry = restartAttempted,
                    !.lrtEntry = lastRestartTime,
                    !.nowEntry = now]
       IN IF sendSlackMessage(ok) = "thrown"
          THEN Thrown(p, Posted(polls[p], ok))
          ELSE /\ polls' = [polls EXCEPT ![p] =
                     IF ShouldRestart
                     THEN [r EXCEPT !.pc = "slackAttempt",
                                    !.notes = Append(@, "attempting")]
                     ELSE ManualCheck(r, consecutiveFailures, restartAttempted)]
               /\ UNCHANGED <<proc, wd>>
    /\ UNCHANGED <<now, isRunning, intervalId, timeouts, recs, hist>>
    /\ UNCHANGED server
    /\ UNCHANGED more

\* handleHealthFailure: the 'attempting recovery' notification has been
\* posted; invoke the recovery trigger
invokeRestart(p, ok) ==
    /\ proc = "running"
    /\ polls[p].pc = "slackAttempt"
    /\ LET r == Posted(polls[p], ok)
       IN IF sendSlackMessage(ok) = "thrown"
          THEN Thrown(p, r) /\ UNCHANGED <<restartCalls, lastInvoke>>
          ELSE /\ polls' = [polls EXCEPT ![p] =
                     [r EXCEPT !.pc = "restart", !.restarts = @ + 1]]
               /\ restartCalls' = restartCalls + 1
               /\ lastInvoke' = now
               /\ UNCHANGED <<proc, wd>>
    /\ UNCHANGED <<now, isRunning, intervalId, timeouts, recs, everHealthy>>
    /\ UNCHANGED server
    /\ UNCHANGED more

\* handleHealthFailure: restartF22LabsApp returns (ok) or throws
restartReturn(p, ok) ==
    /\ proc = "running"
    /\ polls[p].pc = "restart"
    /\ IF ok
       THEN /\ restartAttempted' = TRUE
            /\ lastRestartTime' = now
            /\ timeouts' = Append(timeouts, now + recoveryWait)
            /\ polls' = [polls EXCEPT ![p] =
                  ManualCheck(polls[p], consecutiveFailures, TRUE)]
            /\ UNCHANGED <<lastStatus, consecutiveFailures>>
       ELSE /\ polls' = [polls EXCEPT ![p] =
                  [@ EXCEPT !.pc = "slackRestartFailed",
                            !.notes = Append(@, "restartFailed")]]
            /\ UNCHANGED <<wd, timeouts>>
    /\ UNCHANGED <<now, proc, isRunning, intervalId, recs, hist>>
    /\ UNCHANGED server
    /\ UNCHANGED more

\* handleHealthFailure: the 'restart failed' notification has been posted
restartFailedPosted(p, ok) ==
    /\ proc = "running"
    /\ polls[p].pc = "slackRestartFailed"
    /\ LET r == Posted(polls[p], ok)
       IN IF sendSlackMessage(ok) = "thrown"
          THEN Thrown(p, r)
          ELSE /\ polls' = [polls EXCEPT ![p] =
                     ManualCheck(r, consecutiveFailures, restartAttempted)]
               /\ UNCHANGED <<proc, wd>>
    /\ UNCHANGED <<now, isRunning, intervalId, timeouts, recs, hist>>
    /\ UNCHANGED server
    /\ UNCHANGED more

\* handleHealthFailure: the manual-intervention alert has been posted
manualPosted(p, ok) ==
    /\ proc = "running"
    /\ polls[p].pc = "slackManual"
    /\ LET r == Posted(polls[p], ok)
       IN IF sendSlackMessage(ok) = "thrown"
          THEN Thrown(p, r)
          ELSE /\ polls' = [polls EXCEPT ![p] = [r EXCEPT !.pc = "done"]]
               /\ UNCHANGED <<proc, wd>>
    /\ UNCHANGED <<now, isRunning, intervalId, timeouts, recs, hist>>
    /\ UNCHANGED server
    /\ UNCHANGED more

\* the one-shot timer set after a successful restart fires
TimeoutFire ==
    /\ proc = "running"
    /\ timeouts # <<>>
    /\ now >= Head(timeouts)
    /\ FreeRec # {}
    /\ timeouts' = Tail(timeouts)
    /\ recs' = [recs EXCEPT ![Lowest(FreeRec)] =
                   [IdleRec EXCEPT !.pc = "get", !.gets = 1]]
    /\ UNCHANGED <<now, proc, isRunning, intervalId, wd, polls, hist>>
    /\ UNCHANGED server
    /\ UNCHANGED more

\* checkRecoveryAfterRestart: the answer of the health URL arrives
checkRecoveryAfterRestart(c, res) ==
    /\ proc = "running"
    /\ recs[c].pc = "get"
    /\ recs' = [recs EXCEPT ![c] =
          [@ EXCEPT !.result = res,
                    !.pc = IF RecoveryConfirmed(res) THEN "slackSuccess"
                                                     ELSE "slackFailed",
                    !.notes = Append(@, IF RecoveryConfirmed(res)
                                        THEN "recoverySuccess"
                                        ELSE "recoveryFailed")]]
    /\ everHealthy' = (everHealthy \/ res = "200")
    /\ UNCHANGED <<now, proc, isRunning, intervalId, wd, timeouts, polls,
                   restartCalls, lastInvoke>>
    /\ UNCHANGED server
    /\ UNCHANGED more

\* checkRecoveryAfterRestart: the recovery-success notification has been posted
recoverySuccessPosted(c, ok) ==
    /\ proc = "running"
    /\ recs[c].pc = "slackSuccess"
    /\ LET r == Posted(recs[c], ok)
       IN IF sendSlackMessage(ok) = "thrown"
          THEN \* inside the try block: the catch block sends 'recovery failed'
               /\ recs' = [recs EXCEPT ![c] =
                     [r EXCEPT !.pc = "slackFailed", !.result = "error",
                               !.notes = Append(@, "recoveryFailed")]]
               /\ UNCHANGED <<lastStatus, consecutiveFailures>>
          ELSE /\ consecutiveFailures' = 0
               /\ lastStatus' = "healthy"
               /\ recs' = [recs EXCEPT ![c] = [r EXCEPT !.pc = "done"]]
    /\ UNCHANGED <<now, proc, isRunning, intervalId, restartAttempted,
                   lastRestartTime, timeouts, polls, hist>>
    /\ UNCHANGED server
    /\ UNCHANGED more

\* checkRecoveryAfterRestart: the recovery-failed notification has been posted
recoveryFailedPosted(c, ok) ==
    /\ proc = "running"
    /\ recs[c].pc = "slackFailed"
    /\ LET r == Posted(recs[c], ok)
       IN IF sendSlackMessage(ok) = "thrown"
          THEN IF r.result = "non200"
               THEN /\ recs' = [recs EXCEPT ![c] =
                          [r EXCEPT !.result = "error",
                                    !.notes = Append(@, "recoveryFailed")]]
                    /\ UNCHANGED proc
               ELSE /\ recs' = [recs EXCEPT ![c] = [r EXCEPT !.pc = "rejected"]]
                    /\ proc' = "crashed"
          ELSE /\ recs' = [recs EXCEPT ![c] = [r EXCEPT !.pc = "done"]]
               /\ UNCHANGED proc
    /\ UNCHANGED <<now, isRunning, intervalId, wd, timeouts, polls, hist>>
    /\ UNCHANGED server
    /\ UNCHANGED more

\* An activation that has ended is forgotten.
Retire ==
    /\ proc = "running"
    /\ ~(/\ \A p \in PollIds : polls[p].pc # "done"
          /\ \A c \in RecIds : recs[c].pc # "done")
    /\ polls' = [p \in PollIds |->
                    IF polls[p].pc = "done" THEN IdlePoll ELSE polls[p]]
    /\ recs' = [c \in RecIds |->
                    IF recs[c].pc = "done" THEN IdleRec ELSE recs[c]]
    /\ UNCHANGED <<now, proc, isRunning, intervalId, wd, timeouts, hist>>
    /\ UNCHANGED server
    /\ UNCHANGED more

\* An HTTP call (10 s timeout) is in flight in the activation record r.
InHttp(r) == r.pc \notin {"idle", "restart", "done", "rejected"}

\* The clock advances: no HTTP call is in flight, every timer that is due has
\* fired, and the ended activations are forgotten.
Tick ==
    /\ proc = "running"
    /\ now < EndTime
    /\ \A p \in PollIds : ~InHttp(polls[p]) /\ polls[p].pc # "done"
    /\ \A c \in RecIds : recs[c].pc = "idle"
    /\ ~(intervalId # 0 /\ now >= intervalId)
    /\ ~(timeouts # <<>> /\ now >= Head(timeouts))
    /\ now' = now + TimeStep
    /\ UNCHANGED <<proc, isRunning, intervalId, wd, timeouts, polls, recs, hist>>
    /\ UNCHANGED server
    /\ UNCHANGED more

\* SIGINT or SIGTERM: monitor.stop(), then process.exit(0)
Shutdown ==
    /\ proc = "running"
    /\ IF isRunning
       THEN intervalId' = 0 /\ isRunning' = FALSE
       ELSE UNCHANGED <<intervalId, isRunning>>
    /\ proc' = "exited"
    /\ UNCHANGED <<now, wd, timeouts, polls, recs, hist>>
    /\ UNCHANGED server
    /\ UNCHANGED more

Next ==
    \/ start
    \/ IntervalFire
    \/ \E p \in PollIds, res \in PollResults : checkHealth(p, res)
    \/ \E p \in PollIds, ok \in BOOLEAN : checkHealthRecovered(p, ok)
    \/ \E p \in PollIds, ok \in BOOLEAN : handleHealthFailure(p, ok)
    \/ \E p \in PollIds, ok \in BOOLEAN : invokeRestart(p, ok)
    \/ \E p \in PollIds, ok \in BOOLEAN : restartReturn(p, ok)
    \/ \E p \in PollIds, ok \in BOOLEAN : restartFailedPosted(p, ok)
    \/ \E p \in PollIds, ok \in BOOLEAN : manualPosted(p, ok)
    \/ TimeoutFire
    \/ \E c \in RecIds, res \in RecResults : checkRecoveryAfterRestart(c, res)
    \/ \E c \in RecIds, ok \in BOOLEAN : recoverySuccessPosted(c, ok)
    \/ \E c \in RecIds, ok \in BOOLEAN : recoveryFailedPosted(c, ok)
    \/ Retire
    \/ Tick
    \/ Shutdown

Spec == Init /\ [][Next]_<<vars, server, more>>

\* The watchdog's process goes on while no signal stops it: what is due
\* happens (an awaited call returns or throws, a timer that is due fires,
\* time passes).
FairSpec == Spec /\ WF_vars(Next /\ proc' # "exited")

\* monitor.stop() called on the exported class by a program that goes on
\* running (the signal handlers of the command-line program call
\* process.exit(0) right after it: Shutdown).  It clears the interval timer
\* and nothing else: the activations in progress and the pending one-shot
\* timers are left alone.
stop ==
    /\ proc = "running"
    /\ isRunning
    /\ intervalId' = 0
    /\ isRunning' = FALSE
    /\ UNCHANGED <<now, proc, wd, timeouts, polls, recs, hist>>
    /\ UNCHANGED server
    /\ UNCHANGED more

NextStop == Next \/ stop
SpecStop == Init /\ [][NextStop]_<<vars, server, more>>

\* ====================================================== src/server.js
\* The reconcile engine: checkAndReconnectInstances (a pass over the remote
\* listing) and GET /check-individual-instance/:instanceId.  An action is the
\* return of the awaited call together with the code that runs up to the next
\* await; `pc` names the call the pass is suspended on.  The answer of the
\* remote API (or of the user store) to a call is chosen when the call
\* returns and is written to the history `calls` of the instance (the
\* listing fetch to the history at 0).

\* ------------------------------------------------------- pieces of code
\* instances.filter(instance => instance.connectionStatus === 'ONLINE')
Online(list) == SelectSeq(list, LAMBDA x : x.connectionStatus = "ONLINE")
onlineInstances == Online(instances)
\* const instance = onlineInstances[i]
instanceFromEnd == onlineInstances[Len(onlineInstances) + 1 - idx]
instance == onlineInstances[idx]

\* const baileyStatus = instanceDetails.Whatsapp?.connection?.state || null
baileyStatusRaw(d) == d
baileyStatus(d) == IF d \in {"null", "absent"} THEN "null" ELSE d

\* the test of the second if: Whatsapp.connection.state === 'close'
StateIsCloseOrOpen(d) == d \in {"close", "open"}
StateIsClose(d) == d = "close"

\* connectResponse && connectResponse.base64
HasBase64Always(c) == TRUE
HasBase64(c) == c = "base64"

\* instanceMissing: status 400 and a message that includes
\* 'does not exist or is not connected'
instanceMissing(e) == e = "missing"

\* the test of the catch block of the loop body
ShouldLogoutOnlyMissing(e, inst) == instanceMissing(e)
ShouldLogout(e, inst) == instanceMissing(e) \/ inst.connectionStatus = "ONLINE"

\* loggedOutCount++ is the last statement of its try block: it runs when
\* connectInstance and logoutInstance returned (markInstanceOffline never
\* throws).  done: the block ran to its end.
LoggedOutAlways(n, done) == n + 1
LoggedOut(n, done) == IF done THEN n + 1 ELSE n

\* the three outcomes the function returns
Statistics(t, n, o, c, r, l) ==
    [totalInstances |-> t, onlineInstances |-> n, openConnections |-> o,
     closedConnections |-> c, reconnected |-> r, loggedOut |-> l]
NoOnlineOutcomeAllZero(list) ==
    [success |-> TRUE, message |-> "No online instances found",
     error |-> "none", statistics |-> Statistics(0, 0, 0, 0, 0, 0)]
NoOnlineOutcome(list) ==
    [success |-> TRUE, message |-> "No online instances found",
     error |-> "none", statistics |-> Statistics(Len(list), 0, 0, 0, 0, 0)]
CompletedOutcome(list, o, c, r, l) ==
    [success |-> TRUE, message |-> "Instance check completed",
     error |-> "none",
     statistics |-> Statistics(Len(list), Len(Online(list)), o, c, r, l)]
FailureOutcomeNoError(msg) ==
    [success |-> FALSE, message |-> "Error checking instances",
     error |-> "none", statistics |-> Statistics(0, 0, 0, 0, 0, 0)]
FailureOutcome(msg) ==
    [success |-> FALSE, message |-> "Error checking instances",
     error |-> msg, statistics |-> Statistics(0, 0, 0, 0, 0, 0)]

\* User.findOneAndUpdate({instance_id}, {$set: {status: 'OFFLINE'}}): the
\* store answers m; a record is updated when there is one, no record matches
\* when there is none, and the store may fail in both cases.
StoreAnswers(store, name, m) ==
    /\ m = "updated" => store[name] # "none"
    /\ m = "norecord" => store[name] = "none"
findOneAndUpdateLost(store, name, m) == store
findOneAndUpdateMany(store, name, m) ==
    IF m = "updated"
    THEN [n \in DOMAIN store |->
             IF store[n] = "none" THEN "none" ELSE "OFFLINE"]
    ELSE store
findOneAndUpdate(store, name, m) ==
    IF m = "updated" THEN [store EXCEPT ![name] = "OFFLINE"] ELSE store

\* ------------------------------------------- control flow of the pass
Counters(o, c, r, l) ==
    /\ openCount' = o
    /\ closedCount' = c
    /\ reconnectedCount' = r
    /\ loggedOutCount' = l

\* The call `call` is awaited inside the block w.
Await(call, w) ==
    /\ pc' = call
    /\ where' = w
    /\ UNCHANGED <<idx, result, openCount, closedCount, reconnectedCount,
                   loggedOutCount>>

\* The answer to the call the pass was suspended on, for the current instance.
Log(op, res) ==
    calls' = [calls EXCEPT ![instance.name] = Append(@, [op |-> op, res |-> res])]

\* The head of the for loop with i = k over the ONLINE instances `online`,
\* the counters being o, c, r, l: the loop ends and the function returns its
\* statistics, or the instance has no Auth and `Auth.token` throws a
\* TypeError outside the loop's try block, into the function's catch block,
\* or the detail fetch of instance k is awaited.
LoopHead(online, list, k, o, c, r, l) ==
    /\ idx' = k
    /\ Counters(o, c, r, l)
    /\ IF k > Len(online)
       THEN /\ pc' = "returned"
            /\ where' = "none"
            /\ result' = CompletedOutcome(list, o, c, r, l)
       ELSE IF ~online[k].Auth
       THEN /\ pc' = "returned"
            /\ where' = "none"
            /\ result' = FailureOutcome("TypeError")
       ELSE /\ pc' = "fetchInstanceDetails"
            /\ where' = "try"
            /\ UNCHANGED result

\* `continue`: the next iteration, without the delay
ContinueSame(o, c, r, l) == LoopHead(onlineInstances, instances, idx, o, c, r, l)
Continue(o, c, r, l) == LoopHead(onlineInstances, instances, idx + 1, o, c, r, l)

\* The end of the loop body: the delay, except after the last instance.
EndOfIteration(o, c, r, l) ==
    IF idx < Len(onlineInstances)
    THEN /\ pc' = "delay"
         /\ where' = "none"
         /\ Counters(o, c, r, l)
         /\ UNCHANGED <<idx, result>>
    ELSE LoopHead(onlineInstances, instances, idx + 1, o, c, r, l)

\* Leaving the remedial try block w: done tells whether it ran to its end or
\* was left through its catch.  The null-state block is followed by
\* `continue`; the QR block by closedCount++ and reconnectedCount++.
LeaveCountingQr(w, done) ==
    CASE w = "null" ->
           Continue(openCount, closedCount, reconnectedCount,
                    LoggedOut(loggedOutCount, done))
      [] w = "catch" ->
           EndOfIteration(openCount, closedCount, reconnectedCount,
                          LoggedOut(loggedOutCount, done))
      [] w = "qr" ->
           EndOfIteration(openCount, closedCount + 1, reconnectedCount + 1,
                          LoggedOut(loggedOutCount, done))
Leave(w, done) ==
    CASE w = "null" ->
           Continue(openCount, closedCount, reconnectedCount,
                    LoggedOut(loggedOutCount, done))
      [] w = "catch" ->
           EndOfIteration(openCount, closedCount, reconnectedCount,
                          LoggedOut(loggedOutCount, done))
      [] w = "qr" ->
           EndOfIteration(openCount, closedCount + 1, reconnectedCount + 1,
                          loggedOutCount)

\* The catch block of the loop body, entered with the error e.
CatchInstance(e) ==
    IF ShouldLogout(e, instance)
    THEN Await("connectInstance", "catch")
    ELSE EndOfIteration(openCount, closedCount, reconnectedCount,
                        loggedOutCount)

\* ---------------------------------------------------- actions of a pass
\* The cron job or GET /check-instances calls checkAndReconnectInstances.
checkAndReconnectInstances ==
    /\ pc = "idle"
    /\ pc' = "fetchInstances"
    /\ UNCHANGED <<remote, instances, idx, where, openCount, closedCount,
                   reconnectedCount, loggedOutCount, calls, result, one>>
    /\ UNCHANGED vars
    /\ UNCHANGED more

\* fetchInstances() returns the listing or throws.
fetchInstancesReturn(ok) ==
    /\ pc = "fetchInstances"
    /\ IF ~ok
       THEN /\ pc' = "returned"
            /\ result' = FailureOutcome("fetchInstances")
            /\ UNCHANGED <<instances, idx, where, openCount, closedCount,
                           reconnectedCount, loggedOutCount>>
       ELSE /\ instances' = remote
            /\ IF Len(Online(remote)) = 0
               THEN /\ pc' = "returned"
                    /\ result' = NoOnlineOutcome(remote)
                    /\ UNCHANGED <<idx, where, openCount, closedCount,
                                   reconnectedCount, loggedOutCount>>
               ELSE LoopHead(Online(remote), remote, 1, 0, 0, 0, 0)
    /\ calls' = [calls EXCEPT ![0] = Append(@,
                    [op |-> "fetchInstances",
                     res |-> IF ok THEN "listed" ELSE "error"])]
    /\ UNCHANGED <<remote, one>>
    /\ UNCHANGED vars
    /\ UNCHANGED more

\* fetchInstanceDetails(name, token) returns the details or throws.
fetchInstanceDetailsReturn(d) ==
    /\ pc = "fetchInstanceDetails"
    /\ Log("fetchInstanceDetails", d)
    /\ IF d \in {"missing", "error"}
       THEN CatchInstance(d)
       ELSE IF baileyStatus(d) = "null"
       THEN Await("connectInstance", "null")
       ELSE IF StateIsClose(d)
       THEN Await("connectInstance", "close")
       ELSE EndOfIteration(openCount + 1, closedCount, reconnectedCount,
                           loggedOutCount)
    /\ UNCHANGED <<remote, instances, one>>
    /\ UNCHANGED vars
    /\ UNCHANGED more

\* connectInstance(name, token) returns the response body or throws.  In the
\* close branch the call is inside the loop's try block only: its error is
\* caught by the loop's catch block.
connectInstanceReturn(c) ==
    /\ pc = "connectInstance"
    /\ Log("connectInstance", c)
    /\ IF where = "close"
       THEN IF c = "error"
            THEN CatchInstance(c)
            ELSE IF HasBase64(c)
            THEN Await("logoutInstance", "qr")
            ELSE EndOfIteration(openCount, closedCount + 1,
                                reconnectedCount + 1, loggedOutCount)
       ELSE IF c = "error"
            THEN Leave(where, FALSE)
            ELSE Await("logoutInstance", where)
    /\ UNCHANGED <<remote, instances, one>>
    /\ UNCHANGED vars
    /\ UNCHANGED more

\* logoutInstance(name, token) returns or throws.
logoutInstanceReturn(l) ==
    /\ pc = "logoutInstance"
    /\ Log("logoutInstance", l)
    /\ IF l = "error"
       THEN Leave(where, FALSE)
       ELSE Await("markInstanceOffline", where)
    /\ UNCHANGED <<remote, instances, one>>
    /\ UNCHANGED vars
    /\ UNCHANGED more

\* markInstanceOffline(name) returns: it catches the failure of the store,
\* and the TypeError of reading matchedCount of null, and never throws.
markInstanceOfflineReturn(m) ==
    /\ pc = "markInstanceOffline"
    /\ StoreAnswers(users, instance.name, m)
    /\ users' = findOneAndUpdate(users, instance.name, m)
    /\ Log("markInstanceOffline", m)
    /\ Leave(where, TRUE)
    /\ UNCHANGED <<remote, instances, one, earlier, req, sched>>
    /\ UNCHANGED vars

\* delay(DELAY_MS) is over.
delayReturn ==
    /\ pc = "delay"
    /\ LoopHead(onlineInstances, instances, idx + 1, openCount, closedCount,
                reconnectedCount, loggedOutCount)
    /\ UNCHANGED <<remote, instances, calls, one>>
    /\ UNCHANGED vars
    /\ UNCHANGED more

NextServer ==
    \/ checkAndReconnectInstances
    \/ \E ok \in BOOLEAN : fetchInstancesReturn(ok)
    \/ \E d \in DetailResponses : fetchInstanceDetailsReturn(d)
    \/ \E c \in ConnectResponses : connectInstanceReturn(c)
    \/ \E l \in LogoutResponses : logoutInstanceReturn(l)
    \/ \E m \in StoreResponses : markInstanceOfflineReturn(m)
    \/ delayReturn

\* The server on any remote listing; the watchdog, another process, is left
\* in its initial state.
InitServer ==
    /\ constructor
    /\ \E listing \in Listings : ServerOn(listing)
    /\ \E store \in UserStores : StoreOn(store)
    /\ CronOn(FALSE)
SpecServer == InitServer /\ [][NextServer]_<<vars, server, more>>
\* Every call that is awaited returns or throws in the end, and the delay
\* ends: the pass goes on while it has a step to take.
FairServer == SpecServer /\ WF_<<vars, server, more>>(NextServer)

\* ------------------------ GET /check-individual-instance/:instanceId
\* (Express matches the route only with a non-empty instanceId: the first
\* 400 of the handler cannot happen.)
\* What fetchInstances(instanceId) gets: a body, a 404 of the remote API, or
\* another failure.
ListResponses == {"listed", "404", "error"}

Respond(r, status, message) ==
    [r EXCEPT !.pc = "responded", !.status = status, !.message = message]
LogOne(r, op, res) ==
    [r EXCEPT !.calls = Append(@, [op |-> op, res |-> res])]

\* whatsappState: instanceDetails.Whatsapp?.connection?.state || 'unknown'
whatsappStateUnknown(d) == "unknown"
whatsappState(d) == IF d \in {"null", "absent"} THEN "unknown" ELSE d

\* The request arrives; fetchInstances(instanceId) is awaited.  A second
\* request may follow the answer to the first, which is kept in `earlier`.
checkIndividualInstance(id) ==
    /\ one.pc = "idle" \/ (one.pc = "responded" /\ earlier.pc = "idle")
    /\ one' = [IdleOne EXCEPT !.pc = "fetchInstances", !.instanceId = id]
    /\ earlier' = IF one.pc = "responded" THEN one ELSE earlier
    /\ UNCHANGED <<remote, pc, instances, idx, where, openCount, closedCount,
                   reconnectedCount, loggedOutCount, calls, result>>
    /\ UNCHANGED vars
    /\ UNCHANGED <<users, req, sched>>

\* fetchInstances(instanceId) returns an array or throws: 404 when the array
\* has no instance or the remote API answered 404, 500 on another failure or
\* when the instance has no Auth (`Auth.token` throws a TypeError), 400 when
\* the instance is not ONLINE; otherwise the detail fetch is awaited.
checkIndividualListed(res) ==
    /\ one.pc = "fetchInstances"
    /\ LET r == [one EXCEPT !.listed = res] IN
       one' =
         IF res = "404" THEN Respond(r, 404, "not found")
         ELSE IF res = "error" THEN Respond(r, 500, "error")
         ELSE IF r.instanceId \notin DOMAIN remote
         THEN Respond(r, 404, "not found")
         ELSE IF ~remote[r.instanceId].Auth
         THEN Respond(r, 500, "error")
         ELSE IF remote[r.instanceId].connectionStatus # "ONLINE"
         THEN Respond(r, 400, "not online")
         ELSE [r EXCEPT !.pc = "fetchInstanceDetails"]
    /\ UNCHANGED <<remote, pc, instances, idx, where, openCount, closedCount,
                   reconnectedCount, loggedOutCount, calls, result>>
    /\ UNCHANGED vars
    /\ UNCHANGED more

\* fetchInstanceDetails returns or throws (500): the reconnect is awaited when
\* the state is 'close', otherwise the instance is reported connected.
checkIndividualDetails(d) ==
    /\ one.pc = "fetchInstanceDetails"
    /\ LET r == LogOne(one, "fetchInstanceDetails", d) IN
       one' =
         IF d \in {"missing", "error"} THEN Respond(r, 500, "error")
         ELSE IF StateIsClose(d)
         THEN [r EXCEPT !.pc = "connectInstance",
                        !.whatsappState = whatsappState(d),
                        !.needsReconnection = "false"]
         ELSE [Respond(r, 200, "properly connected") EXCEPT
                        !.whatsappState = whatsappState(d),
                        !.needsReconnection = "false"]
    /\ UNCHANGED <<remote, pc, instances, idx, where, openCount, closedCount,
                   reconnectedCount, loggedOutCount, calls, result>>
    /\ UNCHANGED vars
    /\ UNCHANGED more

\* connectInstance returns or throws.
checkIndividualConnected(c) ==
    /\ one.pc = "connectInstance"
    /\ LET r == LogOne(one, "connectInstance", c) IN
       one' =
         IF c = "error"
         THEN [Respond(r, 200, "reconnection failed") EXCEPT
                        !.needsReconnection = "true", !.reconnected = "false"]
         ELSE IF HasBase64(c)
         THEN [r EXCEPT !.pc = "logoutInstance"]
         ELSE [Respond(r, 200, "reconnected") EXCEPT
                        !.needsReconnection = "true", !.reconnected = "true"]
    /\ UNCHANGED <<remote, pc, instances, idx, where, openCount, closedCount,
                   reconnectedCount, loggedOutCount, calls, result>>
    /\ UNCHANGED vars
    /\ UNCHANGED more

\* logoutInstance returns or throws.
checkIndividualLoggedOut(l) ==
    /\ one.pc = "logoutInstance"
    /\ LET r == LogOne(one, "logoutInstance", l) IN
       one' =
         IF l = "error"
         THEN [Respond(r, 200, "logout failed") EXCEPT
                        !.needsReconnection = "true", !.reconnected = "false"]
         ELSE [Respond(r, 200, "logged out") EXCEPT
                        !.needsReconnection = "true", !.reconnected = "false",
                        !.loggedOut = "true"]
    /\ UNCHANGED <<remote, pc, instances, idx, where, openCount, closedCount,
                   reconnectedCount, loggedOutCount, calls, result>>
    /\ UNCHANGED vars
    /\ UNCHANGED more

\* The handler looks at the one instance its key names: a pass and a request
\* on a remote listing of at most one instance, in any interleaving.
NextSingle ==
    \/ checkAndReconnectInstances
    \/ \E ok \in BOOLEAN : fetchInstancesReturn(ok)
    \/ \E d \in DetailResponses : fetchInstanceDetailsReturn(d)
    \/ \E c \in ConnectResponses : connectInstanceReturn(c)
    \/ \E l \in LogoutResponses : logoutInstanceReturn(l)
    \/ \E m \in StoreResponses : markInstanceOfflineReturn(m)
    \/ \E id \in 1..(Len(remote) + 1) : checkIndividualInstance(id)
    \/ \E res \in ListResponses : checkIndividualListed(res)
    \/ \E d \in DetailResponses : checkIndividualDetails(d)
    \/ \E c \in ConnectResponses : checkIndividualConnected(c)
    \/ \E l \in LogoutResponses : checkIndividualLoggedOut(l)

InitSingle ==
    /\ constructor
    /\ \E listing \in {s \in Listings : Len(s) <= 1} : ServerOn(listing)
    /\ \E store \in UserStores : StoreOn(store)
    /\ CronOn(FALSE)
SpecSingle == InitSingle /\ [][NextSingle]_<<vars, server, more>>

\* ------------------------------------- the stats and the logout endpoints
\* How an axios call of these handlers ends: with a body (200), with an error
\* response of the remote API (its status), or without any response.
NoResponse == 0
RemoteErrors == {401, 404, 500}
RemoteAnswers == {200, NoResponse} \cup RemoteErrors

\* The error objects the catch blocks tell apart: an axios error that has a
\* response, an axios error that has only a request, any other error.
AxiosError(a) ==
    IF a = NoResponse THEN [kind |-> "request", status |-> 0]
    ELSE [kind |-> "response", status |-> a]
OtherError == [kind |-> "other", status |-> 0]

\* The catch block of the four handlers: the status of the remote's error
\* response is handed on (`error.response.status`, `|| 500` in three of them:
\* a response always has a status), 503 without a response, 500 otherwise.
catchStatusUnavailable(e) ==
    IF e.kind \in {"response", "request"} THEN 503 ELSE 500
catchStatus(e) ==
    IF e.kind = "response" THEN (IF e.status = 0 THEN 500 ELSE e.status)
    ELSE IF e.kind = "request" THEN 503
    ELSE 500

Answer(r, status, message) ==
    [r EXCEPT !.pc = "responded", !.status = status, !.message = message]
Caught(r, e) == Answer(r, catchStatus(e), e.kind)
LogReq(r, op, name, res) ==
    [r EXCEPT !.calls = Append(@, [op |-> op, name |-> name, res |-> res])]
\* A request is taken when none is being handled.
Arrive(e) == [IdleReq EXCEPT !.endpoint = e]
Handling(e, at) == req.endpoint = e /\ req.pc = at
\* markInstanceOffline has updated the record of this key.
MarkedOffline(k) ==
    \E j \in DOMAIN calls[k] :
        calls[k][j] = [op |-> "markInstanceOffline", res |-> "updated"]
\* What User.findOne gives for a key: the record, null, or a failure.
findOne(store, k, ok) ==
    IF ~ok THEN "error" ELSE IF store[k] = "none" THEN "null" ELSE "found"
\* One instance of a stats body.
Row(name, mongo, codechat, bailey) ==
    [instance_id |-> name, MongoDB_Status |-> mongo,
     Codechat_Status |-> codechat, Bailey_Status |-> bailey]
ApiUnchanged ==
    /\ UNCHANGED vars
    /\ UNCHANGED server
    /\ UNCHANGED <<users, earlier, sched>>

\* GET /api/stats/instance: 400 without instance_id and mobile_number, else
\* User.findOne is awaited.  (A mobile number is the key of its user's record.)
statsInstance(by, k) ==
    /\ req.pc \in {"idle", "responded"}
    /\ req' = IF by = "none"
              THEN Answer(Arrive("stats/instance"), 400, "no identifier")
              ELSE [Arrive("stats/instance") EXCEPT
                        !.pc = "findOne", !.by = by, !.key = k]
    /\ ApiUnchanged

\* User.findOne returns a user or null (404), or throws (500); with a user
\* the remote listing of the key is awaited.
statsInstanceFound(ok) ==
    /\ Handling("stats/instance", "findOne")
    /\ LET r == LogReq(req, "findOne", req.key, findOne(users, req.key, ok)) IN
       req' = IF ~ok THEN Caught(r, OtherError)
              ELSE IF users[req.key] = "none"
              THEN Answer(r, 404, "user not found")
              ELSE [r EXCEPT !.pc = "fetchInstances",
                             !.mongoStatus = users[req.key],
                             !.after = MarkedOffline(req.key)]
    /\ ApiUnchanged

\* The Bailey_Status of a detail answer: `state || null`, null when the call
\* failed.
BaileyStatus(d) ==
    IF d \in {"null", "absent", "missing", "error"} THEN "null" ELSE d

\* fetchInstances?instanceName= returns or throws (catch): 404 on an empty
\* array; the detail fetch is awaited for an ONLINE instance with a token,
\* otherwise the body is sent.
statsInstanceListed(a) ==
    /\ Handling("stats/instance", "fetchInstances")
    /\ LET r == LogReq(req, "fetchInstances", req.key, a) IN
       req' =
         IF a # 200 THEN Caught(r, AxiosError(a))
         ELSE IF req.key \notin DOMAIN remote
         THEN Answer(r, 404, "instance not found")
         ELSE IF remote[req.key].connectionStatus = "ONLINE"
                 /\ remote[req.key].Auth
         THEN [r EXCEPT !.pc = "fetchInstance"]
         ELSE [Answer(r, 200, "ok") EXCEPT
                 !.rows = <<Row(req.key, req.mongoStatus,
                                remote[req.key].connectionStatus, "null")>>]
    /\ ApiUnchanged

\* The detail fetch returns or throws (caught on the spot): the body is sent.
statsInstanceDetails(d) ==
    /\ Handling("stats/instance", "fetchInstance")
    /\ req' = [Answer(LogReq(req, "fetchInstance", req.key, d), 200, "ok")
                 EXCEPT !.rows = <<Row(req.key, req.mongoStatus,
                                       remote[req.key].connectionStatus,
                                       BaileyStatus(d))>>]
    /\ ApiUnchanged

\* GET /api/stats/all-instances: the remote listing is awaited.
statsAllInstances ==
    /\ req.pc \in {"idle", "responded"}
    /\ req' = [Arrive("stats/all-instances") EXCEPT !.pc = "fetchInstances"]
    /\ ApiUnchanged

\* The next instance of the listing: its detail fetch is awaited when it is
\* ONLINE with a token, otherwise its row is pushed; after the last instance
\* the body is sent.
RECURSIVE AllInstancesFrom(_)
AllInstancesFrom(r) ==
    LET k == Len(r.rows) + 1 IN
    IF k > Len(remote) THEN Answer(r, 200, "ok")
    ELSE IF remote[k].connectionStatus = "ONLINE" /\ remote[k].Auth
    THEN [r EXCEPT !.pc = "fetchInstance", !.key = k]
    ELSE AllInstancesFrom(
           [r EXCEPT !.rows = Append(@, Row(k, IF users[k] = "none"
                                               THEN "NOT_FOUND" ELSE users[k],
                                            remote[k].connectionStatus,
                                            "null"))])

\* The listing returns or throws (catch): 200 'No instances found' on an
\* empty array, else User.find is awaited.
statsAllInstancesListed(a) ==
    /\ Handling("stats/all-instances", "fetchInstances")
    /\ LET r == LogReq(req, "fetchInstances", 0, a) IN
       req' = IF a # 200 THEN Caught(r, AxiosError(a))
              ELSE IF Len(remote) = 0
              THEN Answer(r, 200, "No instances found")
              ELSE [r EXCEPT !.pc = "find"]
    /\ ApiUnchanged

\* User.find returns or throws (500); the loop over the instances starts.
statsAllInstancesUsers(ok) ==
    /\ Handling("stats/all-instances", "find")
    /\ LET r == LogReq(req, "find", 0, IF ok THEN "found" ELSE "error") IN
       req' = IF ~ok THEN Caught(r, OtherError) ELSE AllInstancesFrom(r)
    /\ ApiUnchanged

\* The detail fetch of an instance returns or throws (caught on the spot).
\* (The users read by User.find have not changed since: the handler's map.)
statsAllInstancesDetails(d) ==
    /\ Handling("stats/all-instances", "fetchInstance")
    /\ LET k == req.key
           r == LogReq(req, "fetchInstance", k, d) IN
       req' = AllInstancesFrom(
                [r EXCEPT !.rows = Append(@, Row(k, IF users[k] = "none"
                                                    THEN "NOT_FOUND"
                                                    ELSE users[k],
                                                 remote[k].connectionStatus,
                                                 BaileyStatus(d)))])
    /\ ApiUnchanged

\* POST /logout-all-instances: fetchInstances() is awaited.
logoutAllInstances ==
    /\ req.pc \in {"idle", "responded"}
    /\ req' = [Arrive("logout-all-instances") EXCEPT !.pc = "fetchInstances"]
    /\ ApiUnchanged

\* fetchInstances() returns response.data, the listing itself, and the
\* handler reads the property `data` of that array: an array has none.
dataOf(array) == "undefined"
NoInstancesFound(instancesResponse) ==
    \/ dataOf(instancesResponse) = "undefined"
    \/ Len(dataOf(instancesResponse)) = 0

\* fetchInstances() returns or throws (catch).  `!instancesResponse.data`
\* holds of every listing, so the handler answers 200 'No instances found'
\* with zero statistics; the code after this test is never executed.
logoutAllInstancesListed(a) ==
    /\ Handling("logout-all-instances", "fetchInstances")
    /\ LET r == LogReq(req, "fetchInstances", 0, a) IN
       req' = IF a # 200 THEN Caught(r, AxiosError(a))
              ELSE IF NoInstancesFound(remote)
              THEN Answer(r, 200, "No instances found")
              ELSE [r EXCEPT !.pc = "fetchInstanceDetails"]
    /\ ApiUnchanged

\* POST /logout-instance: 400 without instance_id and mobile_number, else
\* User.findOne is awaited.
logoutInstance(by, k) ==
    /\ req.pc \in {"idle", "responded"}
    /\ req' = IF by = "none"
              THEN Answer(Arrive("logout-instance"), 400, "no identifier")
              ELSE [Arrive("logout-instance") EXCEPT
                        !.pc = "findOne", !.by = by, !.key = k]
    /\ ApiUnchanged

\* The arguments of fetchInstances(finalInstanceId, token) are evaluated at
\* line 926, inside the block that declares `const token` at line 937: the
\* read is in the temporal dead zone and throws a ReferenceError.
tokenReadable == FALSE

\* User.findOne returns a user or null (404), or throws (500).  With a user,
\* the call of fetchInstances throws before it is made: the catch block
\* answers 500, and the code after line 926 is never executed.
logoutInstanceFound(ok) ==
    /\ Handling("logout-instance", "findOne")
    /\ LET r == LogReq(req, "findOne", req.key, findOne(users, req.key, ok)) IN
       req' = IF ~ok THEN Caught(r, OtherError)
              ELSE IF users[req.key] = "none"
              THEN Answer(r, 404, "user not found")
              ELSE IF ~tokenReadable
              THEN Caught([r EXCEPT !.mongoStatus = users[req.key]],
                          OtherError)
              ELSE [r EXCEPT !.pc = "fetchInstances",
                             !.mongoStatus = users[req.key]]
    /\ ApiUnchanged

Identifiers == {"none", "instance_id", "mobile_number"}

\* A pass and the requests to the stats and logout endpoints, one request
\* at a time, on a remote listing of at most one instance.
NextApi ==
    \/ checkAndReconnectInstances
    \/ \E ok \in BOOLEAN : fetchInstancesReturn(ok)
    \/ \E d \in DetailResponses : fetchInstanceDetailsReturn(d)
    \/ \E c \in ConnectResponses : connectInstanceReturn(c)
    \/ \E l \in LogoutResponses : logoutInstanceReturn(l)
    \/ \E m \in StoreResponses : markInstanceOfflineReturn(m)
    \/ \E by \in Identifiers, k \in Names : statsInstance(by, k)
    \/ \E ok \in BOOLEAN : statsInstanceFound(ok)
    \/ \E a \in RemoteAnswers : statsInstanceListed(a)
    \/ \E d \in DetailResponses : statsInstanceDetails(d)
    \/ statsAllInstances
    \/ \E a \in RemoteAnswers : statsAllInstancesListed(a)
    \/ \E ok \in BOOLEAN : statsAllInstancesUsers(ok)
    \/ \E d \in DetailResponses : statsAllInstancesDetails(d)
    \/ logoutAllInstances
    \/ \E a \in RemoteAnswers : logoutAllInstancesListed(a)
    \/ \E by \in Identifiers, k \in Names : logoutInstance(by, k)
    \/ \E ok \in BOOLEAN : logoutInstanceFound(ok)

InitApi ==
    /\ constructor
    /\ \E listing \in {s \in Listings : Len(s) <= 1} : ServerOn(listing)
    /\ \E store \in UserStores : StoreOn(store)
    /\ CronOn(FALSE)
SpecApi == InitApi /\ [][NextApi]_<<vars, server, more>>

\* ---------------------------------- the cron job and overlapping passes
\* The clock goes by quarters of an hour, for MaxQuarters of them.
MaxQuarters == 5
Quarter == 15

\* The schedule '0 */45 * * * *' (six fields: second minute hour ...): second
\* 0 of every minute of the hour, 0 to 59, that is a multiple of 45.
CronMatches(t) == ((t % 60) % 45) = 0
\* The job is due now and has not fired yet.
Due ==
    /\ cronStart
    /\ clock > 0
    /\ CronMatches(clock)
    /\ (IF firings = <<>> THEN TRUE ELSE firings[Len(firings)] < clock)

\* The locals of the pass in the server's variables.
ThisPass(f) ==
    [pc |-> pc, instances |-> instances, idx |-> idx, where |-> where,
     openCount |-> openCount, closedCount |-> closedCount,
     reconnectedCount |-> reconnectedCount,
     loggedOutCount |-> loggedOutCount, calls |-> calls, result |-> result,
     first |-> f]
Suspended(at) == at \notin {"idle", "returned"}

\* Where a call of checkAndReconnectInstances is suspended first: the function
\* tests no flag of a running pass and awaits fetchInstances().
EntryLocked(running) == IF running THEN "returned" ELSE "fetchInstances"
Entry(running) == "fetchInstances"

\* checkAndReconnectInstances() is called: the first pass, or a second one
\* beside it.  (A third call is not followed.)
Invoke ==
    IF pc = "idle"
    THEN /\ pc' = Entry(Suspended(other.pc))
         /\ UNCHANGED <<remote, instances, idx, where, openCount, closedCount,
                        reconnectedCount, loggedOutCount, calls, result, one>>
         /\ UNCHANGED other
    ELSE IF other.pc = "idle"
    THEN /\ other' = [IdlePass EXCEPT !.pc = Entry(Suspended(pc))]
         /\ UNCHANGED server
    ELSE /\ UNCHANGED server
         /\ UNCHANGED other

\* GET /check-instances: the handler awaits checkAndReconnectInstances() and
\* sends its result with status 200 when it returns.
checkInstances ==
    /\ pc = "idle" \/ other.pc = "idle"
    /\ Invoke
    /\ UNCHANGED <<clock, cronStart, firings>>
    /\ UNCHANGED <<users, earlier, req>>
    /\ UNCHANGED vars

\* The cron job fires and calls checkAndReconnectInstances().
cronJob ==
    /\ Due
    /\ firings' = Append(firings, clock)
    /\ Invoke
    /\ UNCHANGED <<clock, cronStart>>
    /\ UNCHANGED <<users, earlier, req>>
    /\ UNCHANGED vars

\* A quarter of an hour goes by, once the job that was due has fired.
Minutes ==
    /\ clock < MaxQuarters * Quarter
    /\ ~Due
    /\ clock' = clock + Quarter
    /\ UNCHANGED <<other, cronStart, firings>>
    /\ UNCHANGED <<users, earlier, req>>
    /\ UNCHANGED server
    /\ UNCHANGED vars

\* The event loop takes up the other pass: the call it is suspended on is the
\* next to return.
resume ==
    /\ Suspended(other.pc)
    /\ pc' = other.pc
    /\ instances' = other.instances
    /\ idx' = other.idx
    /\ where' = other.where
    /\ Counters(other.openCount, other.closedCount, other.reconnectedCount,
                other.loggedOutCount)
    /\ calls' = other.calls
    /\ result' = other.result
    /\ other' = ThisPass(~other.first)
    /\ UNCHANGED <<remote, one>>
    /\ UNCHANGED <<clock, cronStart, firings>>
    /\ UNCHANGED <<users, earlier, req>>
    /\ UNCHANGED vars

\* The cron job, the requests GET /check-instances and up to two passes, in
\* any interleaving, on a remote listing of at most one instance.
NextCron ==
    \/ checkInstances
    \/ cronJob
    \/ Minutes
    \/ resume
    \/ \E ok \in BOOLEAN : fetchInstancesReturn(ok)
    \/ \E d \in DetailResponses : fetchInstanceDetailsReturn(d)
    \/ \E c \in ConnectResponses : connectInstanceReturn(c)
    \/ \E l \in LogoutResponses : logoutInstanceReturn(l)
    \/ \E m \in StoreResponses : markInstanceOfflineReturn(m)

InitCron ==
    /\ constructor
    /\ \E listing \in {s \in Listings : Len(s) <= 1} : ServerOn(listing)
    /\ \E store \in UserStores : StoreOn(store)
    /\ \E scheduled \in BOOLEAN : CronOn(scheduled)
SpecCron == InitCron /\ [][NextCron]_<<vars, server, more>>

\* ------------------------------- GET /check-instances, to its answer
\* The handler answers 200 with the outcome checkAndReconnectInstances()
\* returns.  The function has its whole body in a try block whose catch block
\* returns the failure outcome, so the promise awaited is never rejected and
\* the handler's catch block (500) is not entered.
checkInstancesStatusBySuccess(outcome) == IF outcome.success THEN 200 ELSE 500
checkInstancesStatus(outcome) == 200

\* The request arrives and the handler awaits checkAndReconnectInstances().
checkInstancesAwait ==
    /\ req.pc = "idle"
    /\ pc = "idle"
    /\ req' = [Arrive("check-instances") EXCEPT
                  !.pc = "checkAndReconnectInstances"]
    /\ pc' = Entry(FALSE)
    /\ UNCHANGED <<remote, instances, idx, where, openCount, closedCount,
                   reconnectedCount, loggedOutCount, calls, result, one>>
    /\ UNCHANGED <<users, earlier, sched>>
    /\ UNCHANGED vars

\* The pass has returned its outcome: the handler sends it.
checkInstancesAnswer ==
    /\ Handling("check-instances", "checkAndReconnectInstances")
    /\ pc = "returned"
    /\ req' = Answer(req, checkInstancesStatus(result), result.message)
    /\ ApiUnchanged

\* One request GET /check-instances and the pass it awaits, on a remote
\* listing of at most one instance.
NextCheck ==
    \/ checkInstancesAwait
    \/ \E ok \in BOOLEAN : fetchInstancesReturn(ok)
    \/ \E d \in DetailResponses : fetchInstanceDetailsReturn(d)
    \/ \E c \in ConnectResponses : connectInstanceReturn(c)
    \/ \E l \in LogoutResponses : logoutInstanceReturn(l)
    \/ \E m \in StoreResponses : markInstanceOfflineReturn(m)
    \/ checkInstancesAnswer

SpecCheck == InitApi /\ [][NextCheck]_<<vars, server, more>>

\* ------------------------------------------------------------ the claims

Active(r) == r.pc # "idle"
FailedPoll(r) == r.result \in {"non200", "error"}
\* The activation has left handleHealthFailure's entry behind it.
Entered(r) == r.entered /\ r.pc \in {"slackAttempt", "restart",
                  "slackRestartFailed", "slackManual", "done"}
\* The cooldown test on the state the activation found on entry.
CooldownOver(r) == r.lrtEntry = 0 \/ r.nowEntry - r.lrtEntry > restartCooldown
\* This step invokes the recovery trigger.
Invokes == restartCalls' = restartCalls + 1

\* C1: any two invocations of the recovery trigger are more than the cooldown
\* window apart, whether the earlier one returned or threw.  Stated for the
\* invocations made once the earlier one has ended.
C1_CooldownBetweenInvocations ==
    [][(Invokes /\ \A q \in PollIds : polls[q].pc # "restart")
          => (lastInvoke = 0 \/ now' - lastInvoke > restartCooldown)]_vars

\* C2: while no poll and no confirmation has ever observed 200, the recovery
\* trigger is invoked once and never a second time (inside the cooldown window
\* or after it), and every failing poll from the third on that finds the
\* restart done (restartAttempted set) sends the manual-intervention
\* notification.
C2_ThreeFailuresScenario ==
    ~everHealthy =>
        /\ restartCalls <= 1
        /\ restartAttempted => restartCalls = 1
        /\ \A p \in PollIds :
              (Entered(polls[p]) /\ polls[p].cfBefore >= 2 /\ polls[p].raEntry)
                  => /\ Count(polls[p].notes, "manual") = 1
                     /\ polls[p].restarts = 0

\* C2, the case: the restart succeeded, its confirmation check has run and
\* failed, and a fourth failing poll has sent the manual-intervention alert.
C2_Witness ==
    /\ ~everHealthy
    /\ restartCalls = 1 /\ restartAttempted /\ timeouts = <<>>
    /\ \A c \in RecIds : recs[c].pc = "idle"
    /\ \E p \in PollIds :
          /\ polls[p].pc = "done" /\ polls[p].cfBefore = 3
          /\ Count(polls[p].notes, "manual") = 1

\* C3: a regular poll that returns 200 ends with consecutiveFailures = 0,
\* restartAttempted = false and lastStatus = healthy, whatever the state
\* before; it sends the recovery notification exactly when the counter was
\* above 0 before it.
C3_HealthyPollResets ==
    [][\A p \in PollIds :
          (polls[p].pc # "done" /\ polls'[p].pc = "done" /\ polls'[p].result = "200")
              => /\ consecutiveFailures' = 0
                 /\ restartAttempted' = FALSE
                 /\ lastStatus' = "healthy"
                 /\ (Count(polls'[p].notes, "recovered") = 1) <=> (polls'[p].cfBefore > 0)
                 /\ Count(polls'[p].notes, "recovered") <= 1]_vars

\* C4: while the service keeps failing (no 200 was ever observed) with
\* restartAttempted = true (third failure or later), no restart is attempted before the cooldown is over, and
\* a failing poll that finds the cooldown over makes a new restart attempt.
C4_CooldownResetsGate ==
    \A p \in PollIds :
        (Entered(polls[p]) /\ polls[p].raEntry /\ polls[p].lrtEntry # 0
            /\ polls[p].cfBefore >= 2 /\ polls[p].cfEntry >= 3 /\ ~everHealthy)
            => IF polls[p].nowEntry - polls[p].lrtEntry > restartCooldown
               THEN polls[p].pc = "done" => polls[p].restarts = 1
               ELSE polls[p].restarts = 0

\* C5: a failing poll that brings consecutiveFailures to 3 or more sends the
\* manual-intervention notification, whatever happened to the restart (it
\* returned, it threw, the cooldown forbade it).  Stated for the polls that end
\* while no invocation of the recovery trigger is in progress.
C5_ManualAlertAfterThree ==
    [][\A p \in PollIds :
          (/\ polls[p].pc # "done" /\ polls'[p].pc = "done"
           /\ FailedPoll(polls'[p]) /\ polls'[p].cfBefore >= 2
           /\ \A q \in PollIds : polls[q].pc # "restart")
              => Count(polls'[p].notes, "manual") >= 1]_vars

\* C6: a failing poll that enters handleHealthFailure with
\* consecutiveFailures >= 3 and restartAttempted = true sends exactly one
\* manual-intervention notification and does not invoke the recovery trigger.
C6_Escalation ==
    \A p \in PollIds :
        (Entered(polls[p]) /\ polls[p].cfEntry >= 3 /\ polls[p].raEntry)
            => /\ Count(polls[p].notes, "manual") = 1
               /\ polls[p].restarts = 0
               /\ polls[p].pc \in {"slackManual", "done"}

C6_Witness ==
    \E p \in PollIds :
        /\ polls[p].pc = "done" /\ polls[p].entered
        /\ polls[p].cfEntry >= 3 /\ polls[p].raEntry
        /\ Count(polls[p].notes, "manual") = 1

\* C7: a failing poll that enters handleHealthFailure with
\* consecutiveFailures = 1, restartAttempted = false and the cooldown over (or
\* no restart before) sends one 'attempting recovery' notification and invokes
\* the recovery trigger exactly once; when the trigger returns,
\* restartAttempted = true, lastRestartTime is the current time and one
\* confirmation check is scheduled; when it throws, none of the three is set.
\* (the state part: what the activation has sent and invoked)
C7_Attempt ==
    \A p \in PollIds :
        (Entered(polls[p]) /\ polls[p].cfEntry = 1 /\ ~polls[p].raEntry
            /\ CooldownOver(polls[p]))
            => /\ Count(polls[p].notes, "attempting") = 1
               /\ polls[p].restarts = IF polls[p].pc = "slackAttempt" THEN 0 ELSE 1
\* (the step part: the step in which the recovery trigger ends)
C7_Return ==
    \A p \in PollIds :
        (polls[p].pc = "restart" /\ polls'[p].pc # "restart")
            => IF polls'[p].pc = "slackRestartFailed"
               THEN UNCHANGED <<restartAttempted, lastRestartTime, timeouts>>
               ELSE /\ restartAttempted' = TRUE
                    /\ lastRestartTime' = now'
                    /\ timeouts' = Append(timeouts, now' + recoveryWait)
\* C7 as one formula: a first failure with the gate open and the cooldown over
\* invokes the recovery trigger once, and the trigger's return, not its throw,
\* sets restartAttempted, lastRestartTime and the confirmation timer.
C7_FirstFailureRecovery == []C7_Attempt /\ [][C7_Return]_vars

\* C7, the case: a first failure after an earlier restart, with the cooldown
\* over, has restarted the service again and scheduled the confirmation.
C7_Witness ==
    \E p \in PollIds :
        /\ polls[p].pc = "done" /\ polls[p].entered /\ polls[p].restarts = 1
        /\ polls[p].cfEntry = 1 /\ ~polls[p].raEntry
        /\ polls[p].lrtEntry # 0 /\ CooldownOver(polls[p])
        /\ restartAttempted /\ lastRestartTime = now /\ timeouts # <<>>

\* C8: the confirmation check polls once; on 200 it sends recovery-success and
\* sets consecutiveFailures = 0 and lastStatus = healthy; on anything else it
\* sends recovery-failed and leaves the four fields of WatchdogState unchanged.
\* (the state part: one poll, one notification, chosen by the answer)
C8_Notes ==
    \A c \in RecIds :
        Active(recs[c])
            => /\ recs[c].gets = 1
               /\ recs[c].notes =
                     IF recs[c].pc = "get" THEN <<>>
                     ELSE IF recs[c].result = "200" THEN <<"recoverySuccess">>
                     ELSE <<"recoveryFailed">>
\* (the step part: what a step of the confirmation check does to the state)
C8_Effect ==
    \A c \in RecIds :
        (recs'[c] # recs[c])
            => IF recs'[c].pc = "done" /\ recs'[c].result = "200"
               THEN consecutiveFailures' = 0 /\ lastStatus' = "healthy"
               ELSE UNCHANGED wd
\* C8 as one formula: the confirmation check sends the notification of its
\* answer and changes WatchdogState only when it ends having seen 200.
C8_RecoveryConfirmation == []C8_Notes /\ [][C8_Effect]_vars

\* C8, the case: a confirmation check that failed has ended and the service is
\* still counted as failing.
C8_Witness ==
    \E c \in RecIds :
        /\ recs[c].pc = "done" /\ recs[c].result = "error"
        /\ consecutiveFailures >= 2 /\ lastStatus = "unhealthy"
        /\ restartAttempted

\* C9: a regular poll that fails adds exactly 1 to consecutiveFailures, sets
\* lastStatus = unhealthy and sends exactly one failure notification; the
\* counter is 0 whenever the status is healthy; it only ever falls to 0, and
\* only in the step of a poll or confirmation check that observed 200.
\* (the state part)
C9_Counted ==
    /\ lastStatus = "healthy" => consecutiveFailures = 0
    /\ \A p \in PollIds :
          FailedPoll(polls[p]) => Count(polls[p].notes, "failed") = 1
\* (the step part)
C9_Step ==
    /\ \A p \in PollIds :
          (polls[p].pc = "get" /\ FailedPoll(polls'[p]))
              => /\ consecutiveFailures' = consecutiveFailures + 1
                 /\ lastStatus' = "unhealthy"
    /\ consecutiveFailures' \in {consecutiveFailures, consecutiveFailures + 1, 0}
    /\ (consecutiveFailures' < consecutiveFailures)
          => \/ \E p \in PollIds : /\ polls[p].pc # "done" /\ polls'[p].pc = "done"
                                   /\ polls'[p].result = "200"
             \/ \E c \in RecIds : /\ recs[c].pc # "done" /\ recs'[c].pc = "done"
                                  /\ recs'[c].result = "200"
\* C9 as one formula: failures are counted one by one and notified once, and
\* the counter returns to 0 only when a poll or confirmation saw 200.
C9_FailureCounter == []C9_Counted /\ [][C9_Step]_vars

\* C9, the case: the first failure after a healthy state has been counted.
C9_Witness ==
    /\ everHealthy /\ consecutiveFailures = 1
    /\ \E p \in PollIds :
          /\ polls[p].pc = "done" /\ FailedPoll(polls[p])
          /\ polls[p].cfBefore = 0 /\ Count(polls[p].notes, "failed") = 1

\* C10: a failed post to the notification sink or a throwing recovery trigger
\* never leaves a poll: no activation is rejected, the process does not die,
\* the failure is not counted a second time, the poll goes on to its state
\* updates, and the interval timer stays armed for the next poll.
\* (the state part)
C10_Alive ==
    /\ proc # "crashed"
    /\ \A p \in PollIds : polls[p].pc # "rejected"
    /\ \A c \in RecIds : recs[c].pc # "rejected"
    /\ proc = "running" => (isRunning /\ intervalId # 0 /\ intervalId >= now)
\* (the step part)
C10_Step ==
    /\ \A p \in PollIds :
          (polls'[p].postFails > polls[p].postFails)
              => /\ consecutiveFailures' <= consecutiveFailures
                 /\ polls'[p].notes \in {polls[p].notes,
                        Append(polls[p].notes, "attempting"),
                        Append(polls[p].notes, "manual")}
                 /\ polls[p].pc = "slackRecovered"
                       => /\ polls'[p].pc = "done"
                          /\ consecutiveFailures' = 0 /\ restartAttempted' = FALSE
                          /\ lastStatus' = "healthy"
    /\ \A p \in PollIds :
          (polls[p].pc = "restart" /\ polls'[p].pc = "slackRestartFailed")
              => proc' = "running" /\ UNCHANGED wd
    /\ \A c \in RecIds :
          (recs'[c].postFails > recs[c].postFails) => recs'[c].pc = "done"
\* C10 as one formula: failures of the notification sink and of the recovery
\* trigger stay inside the poll, and the polling loop goes on.
C10_Resilience == []C10_Alive /\ [][C10_Step]_vars

\* C10, the case: a poll has ended after its recovery trigger threw and two of
\* its notifications could not be posted, and the timer is armed.
C10_Witness ==
    /\ proc = "running" /\ isRunning /\ intervalId > now
    /\ \E p \in PollIds :
          /\ polls[p].pc = "done" /\ polls[p].postFails >= 2
          /\ Count(polls[p].notes, "restartFailed") = 1

\* --------------------------------------- the claims on the reconcile engine
\* (checked under SpecServer, C20 under SpecSingle)

\* The pass is handling an instance, and this step ends the handling of it:
\* the pass goes to the delay, to the next instance or to its return.
Processing ==
    pc \in {"fetchInstanceDetails", "connectInstance", "logoutInstance",
            "markInstanceOffline"}
Finished == Processing /\ pc' \in {"fetchInstanceDetails", "delay", "returned"}
\* the history of the instance being handled, after this step
Handled == calls'[instance.name]

OpsOf(log) == [k \in DOMAIN log |-> log[k].op]
Issued(log, op) == \E k \in DOMAIN log : log[k].op = op
Ok(log, op) == \E k \in DOMAIN log : log[k].op = op /\ log[k].res # "error"
DetailOf(log) == log[1].res
\* the answer to the first connect call
ConnectOf(log) == IF Len(log) >= 2 THEN log[2].res ELSE "none"

\* no detail, connect, logout or user-store call was made
NoInstanceCall == \A n \in Names : calls[n] = <<>>
\* The pass has returned, its listing fetch having returned / having failed.
ListFetched == pc = "returned" /\ calls[0][1].res = "listed"
ListFailed == pc = "returned" /\ calls[0][1].res = "error"

\* C11: an ONLINE instance whose detail state is 'close' and whose connect
\* response carries base64: when its handling ends a logout call was issued
\* and, the logout having succeeded, loggedOut has grown by one and
\* reconnected has not grown.
C11_QrCountsLoggedOut ==
    [][(Finished /\ DetailOf(Handled) = "close"
                 /\ ConnectOf(Handled) = "base64")
        => /\ Issued(Handled, "logoutInstance")
           /\ Ok(Handled, "logoutInstance")
                => /\ loggedOutCount' = loggedOutCount + 1
                   /\ reconnectedCount' = reconnectedCount]_<<vars, server>>

\* C12 as stated: a listing with no ONLINE entry gives success = true, every
\* statistics counter 0, totalInstances included, and no call.
C12_ZeroOnlineAllZero ==
    (ListFetched /\ Len(Online(remote)) = 0)
    => /\ result.success
       /\ result.statistics = Statistics(0, 0, 0, 0, 0, 0)
       /\ NoInstanceCall

\* C12 amended: a listing with no ONLINE entry gives success = true,
\* totalInstances = the length of the listing, the five other counters 0,
\* and no call.
C12_ZeroOnline ==
    (ListFetched /\ Len(Online(remote)) = 0)
    => /\ result.success
       /\ result.statistics = Statistics(Len(remote), 0, 0, 0, 0, 0)
       /\ NoInstanceCall

C12_Witness ==
    /\ ListFetched
    /\ Len(remote) = MaxInstances
    /\ Len(Online(remote)) = 0
    /\ result.message = "No online instances found"

\* After the detail fetch: connect, then logout, then mark-offline, each call
\* made only after the previous one succeeded, and none made after a failure.
RemedialSequence(log) ==
    \/ /\ OpsOf(log) = <<"fetchInstanceDetails", "connectInstance">>
       /\ log[2].res = "error"
    \/ /\ OpsOf(log) = <<"fetchInstanceDetails", "connectInstance",
                         "logoutInstance">>
       /\ log[2].res # "error"
       /\ log[3].res = "error"
    \/ /\ OpsOf(log) = <<"fetchInstanceDetails", "connectInstance",
                         "logoutInstance", "markInstanceOffline">>
       /\ log[2].res # "error"
       /\ log[3].res = "ok"
\* loggedOut grows by one exactly when connect and logout succeeded, whatever
\* the user store did; the three other counters do not change.
CountedLoggedOut(log) ==
    /\ loggedOutCount' = loggedOutCount +
          (IF Ok(log, "connectInstance") /\ Ok(log, "logoutInstance")
           THEN 1 ELSE 0)
    /\ UNCHANGED <<openCount, closedCount, reconnectedCount>>

\* C13 as stated: an instance whose detail fetch fails with another error than
\* the 'instance missing' 400 is skipped: no further call is made for it and
\* no counter changes.
C13_UnclassifiedSkipped ==
    [][(Finished /\ DetailOf(Handled) = "error")
        => /\ OpsOf(Handled) = <<"fetchInstanceDetails">>
           /\ UNCHANGED <<openCount, closedCount, reconnectedCount,
                          loggedOutCount>>]_<<vars, server>>

\* C13 amended: such an instance is handled as a missing instance is: connect,
\* logout and mark-offline are called in that order, each after the previous
\* one succeeded; loggedOut grows by one when connect and logout succeeded;
\* openConnections, closedConnections and reconnected do not change.
C13_UnclassifiedLoggedOut ==
    [][(Finished /\ DetailOf(Handled) = "error")
        => /\ RemedialSequence(Handled)
           /\ CountedLoggedOut(Handled)]_<<vars, server>>

C13_Witness ==
    /\ ListFetched
    /\ \E n \in Names :
          /\ Len(calls[n]) = 4
          /\ calls[n][1].res = "error"
          /\ calls[n][4].op = "markInstanceOffline"
    /\ result.success
    /\ result.statistics.loggedOut >= 1

\* C14: once the listing has been fetched, the pass returns success = true
\* whatever happened to single instances (a failed call, or a listed ONLINE
\* instance without Auth): every ONLINE instance that has its Auth was handled
\* and the statistics count the listing and its ONLINE instances.
C14_ErrorIsolation ==
    ListFetched
    => /\ result.success
       /\ \A n \in DOMAIN remote :
             (remote[n].connectionStatus = "ONLINE" /\ remote[n].Auth)
                => calls[n] # <<>>
       /\ result.statistics.totalInstances = Len(remote)
       /\ result.statistics.onlineInstances = Len(Online(remote))

\* C15: when the listing fetch fails the pass returns (it does not throw) the
\* outcome success = false with the error message and six statistics at 0,
\* and the pass has made no call for any instance and no user-store write.
C15_ListFailureAbsorbed ==
    /\ (pc = "returned" /\ calls[0][1].res = "error")
         => /\ ~result.success
            /\ result.message = "Error checking instances"
            /\ result.error = "fetchInstances"
            /\ result.statistics = Statistics(0, 0, 0, 0, 0, 0)
            /\ NoInstanceCall
    /\ (pc # "returned" /\ calls[0] # <<>>) => calls[0][1].res = "listed"

C15_Witness ==
    /\ ListFailed
    /\ Len(Online(remote)) = MaxInstances
    /\ \A n \in DOMAIN remote : remote[n].Auth

\* C16 as stated: an instance whose detail fetch fails with the 'does not exist
\* or is not connected' 400: connect, logout and mark-offline are attempted in
\* that order and loggedOut grows by exactly one.
C16_MissingAlwaysCounted ==
    [][(Finished /\ DetailOf(Handled) = "missing")
        => /\ OpsOf(Handled) = <<"fetchInstanceDetails", "connectInstance",
                                 "logoutInstance", "markInstanceOffline">>
           /\ loggedOutCount' = loggedOutCount + 1]_<<vars, server>>

\* C16 amended: connect, logout and mark-offline are called in that order, each
\* only after the previous one succeeded; when connect and logout succeeded
\* loggedOut grows by exactly one whether the user-store update succeeds,
\* fails or finds no record; when connect or logout failed it does not grow.
C16_MissingLoggedOut ==
    [][(Finished /\ DetailOf(Handled) = "missing")
        => /\ RemedialSequence(Handled)
           /\ Issued(Handled, "markInstanceOffline")
                => loggedOutCount' = loggedOutCount + 1
           /\ ~Issued(Handled, "markInstanceOffline")
                => loggedOutCount' = loggedOutCount]_<<vars, server>>

\* the three outcomes of the user-store update, each counted
C16_Witness ==
    /\ ListFetched
    /\ Len(remote) >= 2
    /\ \A n \in DOMAIN remote :
          /\ Len(calls[n]) = 4
          /\ calls[n][1].res = "missing"
    /\ calls[1][4].res = "error"
    /\ calls[2][4].res = "norecord"
    /\ result.statistics.loggedOut = Len(remote)

\* C17: an instance whose detail fetch succeeds with state null or absent:
\* connect, logout and mark-offline are called in that order, each only after
\* the previous one succeeded; loggedOut grows by one when connect and logout
\* succeeded; openConnections, closedConnections and reconnected do not change.
C17_NullState ==
    [][(Finished /\ DetailOf(Handled) \in {"null", "absent"})
        => /\ RemedialSequence(Handled)
           /\ CountedLoggedOut(Handled)]_<<vars, server>>

C17_Witness ==
    /\ ListFetched
    /\ Len(remote) >= 2
    /\ OpsOf(calls[1]) = <<"fetchInstanceDetails", "connectInstance",
                           "logoutInstance", "markInstanceOffline">>
    /\ calls[1][1].res = "null"
    /\ OpsOf(calls[2]) = <<"fetchInstanceDetails", "connectInstance",
                           "logoutInstance">>
    /\ calls[2][1].res = "absent"
    /\ result.statistics.loggedOut = 1

\* The counters change only on the step that ends the handling of an instance.
CountedAtEnd ==
    (Processing /\ ~Finished)
        => UNCHANGED <<openCount, closedCount, reconnectedCount, loggedOutCount>>

\* C18: an instance whose detail state is 'close' and whose connect response
\* carries no base64: reconnected and closedConnections each grow by exactly
\* one, no logout call and no user-store write is made, and loggedOut and
\* openConnections do not change.
C18_Reconnect ==
    (Finished /\ DetailOf(Handled) = "close" /\ ConnectOf(Handled) = "connected")
        => /\ OpsOf(Handled) = <<"fetchInstanceDetails", "connectInstance">>
           /\ reconnectedCount' = reconnectedCount + 1
           /\ closedCount' = closedCount + 1
           /\ UNCHANGED <<openCount, loggedOutCount>>
C18_CloseWithoutPairing == [][CountedAtEnd /\ C18_Reconnect]_<<vars, server>>

C18_Witness ==
    /\ ListFetched
    /\ Len(remote) >= 2
    /\ \A n \in DOMAIN remote :
          /\ Len(calls[n]) = 2
          /\ calls[n][1].res = "close"
          /\ calls[n][2].res = "connected"
    /\ result.statistics.reconnected = Len(remote)
    /\ result.statistics.closedConnections = Len(remote)

\* C19: an instance whose detail state is 'open': openConnections grows by
\* exactly one and no connect, logout or mark-offline call is made for it.
C19_NoCall ==
    (Finished /\ DetailOf(Handled) = "open")
        => /\ OpsOf(Handled) = <<"fetchInstanceDetails">>
           /\ openCount' = openCount + 1
           /\ UNCHANGED <<closedCount, reconnectedCount, loggedOutCount>>
C19_OpenBranch == [][CountedAtEnd /\ C19_NoCall]_<<vars, server>>

C19_Witness ==
    /\ ListFetched
    /\ Len(remote) >= 2
    /\ \A n \in DOMAIN remote : calls[n] = <<[op |-> "fetchInstanceDetails",
                                             res |-> "open"]>>
    /\ result.statistics.openConnections = Len(remote)

\* the answer to the first call of op in a history
FirstAnswer(log, op) ==
    log[CHOOSE k \in DOMAIN log :
            log[k].op = op /\ \A j \in 1..(k - 1) : log[j].op # op].res
\* two histories got the same answers to the calls both made
SameAnswers(a, b) ==
    \A op \in {"fetchInstanceDetails", "connectInstance", "logoutInstance"} :
        (Issued(a, op) /\ Issued(b, op)) => FirstAnswer(a, op) = FirstAnswer(b, op)

\* C20: for an ONLINE instance, GET /check-individual-instance/:instanceId
\* and a pass that got the same answers from the remote API have made the
\* same calls for the instance, in the same order.
C20_SameRemediation ==
    (/\ ListFetched
     /\ one.pc = "responded"
     /\ one.instanceId = 1
     /\ one.calls # <<>>
     /\ calls[1] # <<>>
     /\ SameAnswers(one.calls, calls[1]))
    => OpsOf(one.calls) = OpsOf(calls[1])

\* C21: the handler answers 404 when the listing it fetched has no instance
\* for the key or the remote API answered 404, and 400 when the instance is
\* listed with a connectionStatus other than ONLINE; in both cases it has
\* made no detail fetch, connect or logout call (it never writes the store).
C21_RejectsWithoutCalls ==
    one.pc = "responded"
    => /\ (\/ one.listed = "404"
            \/ (one.listed = "listed" /\ one.instanceId \notin DOMAIN remote))
          => one.status = 404 /\ one.calls = <<>>
       /\ (/\ one.listed = "listed"
            /\ one.instanceId \in DOMAIN remote
            /\ remote[one.instanceId].connectionStatus # "ONLINE")
          => one.status = 400 /\ one.calls = <<>>

\* C22: two successive requests for the same instance, both finding it
\* listed ONLINE with detail state 'open': both are answered 200 with the same
\* result (needsReconnection false, the same whatsappState, no reconnected or
\* loggedOut flag) and each has made its detail fetch and no other call.
C22_Idempotent ==
    (/\ earlier.pc = "responded"
     /\ one.pc = "responded"
     /\ earlier.instanceId = one.instanceId
     /\ earlier.calls # <<>> /\ DetailOf(earlier.calls) = "open"
     /\ one.calls # <<>> /\ DetailOf(one.calls) = "open")
    => /\ one = earlier
       /\ one.status = 200
       /\ one.needsReconnection = "false"
       /\ one.whatsappState = "open"
       /\ one.reconnected = "absent" /\ one.loggedOut = "absent"
       /\ OpsOf(one.calls) = <<"fetchInstanceDetails">>

C22_Witness ==
    /\ earlier.pc = "responded"
    /\ earlier.calls # <<>> /\ DetailOf(earlier.calls) = "open"
    /\ one.pc = "responded"
    /\ one.instanceId = earlier.instanceId
    /\ one.calls # <<>> /\ DetailOf(one.calls) = "open"

\* The answered request to an endpoint.
Answered(e) == Handling(e, "responded")
\* The stats lookup of a key has sent its body, and its user lookup came
\* after markInstanceOffline had updated the record of the same key.
LookupAfterMark ==
    /\ Answered("stats/instance")
    /\ req.status = 200
    /\ req.after

\* C23: round trip.  Once markInstanceOffline(k) has updated the user record
\* of the instance key k, the stats lookup GET /api/stats/instance for k that
\* follows it and sends a body reports MongoDB_Status = OFFLINE for k.
C23_RoundTrip ==
    LookupAfterMark =>
        /\ Len(req.rows) = 1
        /\ req.rows[1].instance_id = req.key
        /\ req.rows[1].MongoDB_Status = "OFFLINE"

\* C23, the case: a record that was ONLINE is marked OFFLINE by the pass and
\* the lookup by instance_id that follows sends its body.
C23_Witness ==
    /\ LookupAfterMark
    /\ req.by = "instance_id"
    /\ MarkedOffline(req.key)
    /\ req.rows[1].MongoDB_Status = "OFFLINE"

\* The calls of the request for an instance, and the answer to its detail
\* fetch ("none" when it was not made).
ReqCalls(op, k) ==
    {j \in DOMAIN req.calls : req.calls[j].op = op /\ req.calls[j].name = k}
ReqDetail(k) ==
    IF ReqCalls("fetchInstanceDetails", k) = {} THEN "none"
    ELSE req.calls[Lowest(ReqCalls("fetchInstanceDetails", k))].res
\* The request got the remote listing.
ReqListed ==
    \E j \in DOMAIN req.calls :
        req.calls[j].op = "fetchInstances" /\ req.calls[j].res = 200
\* The ONLINE instances with a token whose liveness state the request found
\* null or absent, or could not fetch.
Indeterminate ==
    {k \in DOMAIN remote :
        /\ remote[k].connectionStatus = "ONLINE"
        /\ remote[k].Auth
        /\ ReqDetail(k) \in {"null", "absent", "missing", "error"}}

\* C25: POST /logout-all-instances that got a non-empty remote listing has
\* fetched the liveness state of every ONLINE instance with a token, has
\* issued connect then logout for each of them whose state is null or absent
\* or whose detail fetch failed, has marked OFFLINE each one whose logout
\* succeeded, and reports a processed count equal to their number.
C25_LogoutAllProcesses ==
    (Answered("logout-all-instances") /\ ReqListed /\ Len(remote) > 0) =>
        /\ \A k \in DOMAIN remote :
              (remote[k].connectionStatus = "ONLINE" /\ remote[k].Auth)
                  => ReqDetail(k) # "none"
        /\ \A k \in Indeterminate :
              /\ ReqCalls("connectInstance", k) # {}
              /\ ReqCalls("logoutInstance", k) # {}
              /\ Lowest(ReqCalls("connectInstance", k))
                    < Lowest(ReqCalls("logoutInstance", k))
              /\ (\E j \in ReqCalls("logoutInstance", k) :
                      req.calls[j].res = "ok") => users[k] # "ONLINE"
        /\ req.processed = Cardinality(Indeterminate)

\* No remote call of the request failed, its connect call apart.
ReqCallsFine ==
    \A j \in DOMAIN req.calls :
        CASE req.calls[j].op = "connectInstance" -> TRUE
          [] req.calls[j].op = "fetchInstances" -> req.calls[j].res = 200
          [] req.calls[j].op = "findOne" -> req.calls[j].res = "found"
          [] OTHER -> req.calls[j].res \notin {"error", "missing"}

\* C26: POST /logout-instance whose identifier matches a persisted user whose
\* remote instance is ONLINE with a token issues a logout for that instance
\* (whether or not the connect before it failed); when the logout call
\* succeeds the user's persisted status is OFFLINE and the answer is 200.
C26_LogoutInstanceLogsOut ==
    (/\ Answered("logout-instance")
     /\ req.mongoStatus # "none"
     /\ req.key \in DOMAIN remote
     /\ remote[req.key].connectionStatus = "ONLINE"
     /\ remote[req.key].Auth
     /\ ReqCallsFine) =>
        /\ ReqCalls("logoutInstance", req.key) # {}
        /\ (\E j \in ReqCalls("logoutInstance", req.key) :
                req.calls[j].res = "ok")
              => (users[req.key] = "OFFLINE" /\ req.status = 200)

\* The request to a stats or logout endpoint has its answer; the last call
\* it made, if any.
Endpoints == {"stats/instance", "stats/all-instances",
              "logout-all-instances", "logout-instance"}
Done == req.endpoint \in Endpoints /\ req.pc = "responded"
LastCall ==
    IF req.calls = <<>> THEN [op |-> "none", name |-> 0, res |-> "none"]
    ELSE req.calls[Len(req.calls)]
\* The remote API answered the last call with an error response.
RemoteRefused ==
    LastCall.op = "fetchInstances" /\ LastCall.res \in RemoteErrors
HandedOn(status) == status
Unavailable(status) == 503
\* The classification of the answers, given the status that stands for an
\* error response of the remote API.
Classified(OnResponse(_)) ==
    Done =>
        req.status =
          IF req.calls = <<>> THEN 400
          ELSE IF LastCall.op \in {"findOne", "find"} /\ LastCall.res = "error"
          THEN 500
          ELSE IF LastCall.op = "findOne" /\ LastCall.res = "null" THEN 404
          ELSE IF RemoteRefused THEN OnResponse(LastCall.res)
          ELSE IF LastCall.op = "fetchInstances" /\ LastCall.res = NoResponse
          THEN 503
          ELSE IF /\ req.endpoint = "stats/instance"
                  /\ LastCall.op = "fetchInstances"
                  /\ req.key \notin DOMAIN remote
          THEN 404
          ELSE IF req.endpoint = "logout-instance" THEN 500
          ELSE 200

NextInstanceCalled ==
    /\ idx >= 1
    /\ idx' = idx + 1
    /\ pc' = "fetchInstanceDetails"

\* C29: in every pass and whatever branch was taken for an instance (open,
\* close, QR, null state, detail-fetch failure), the first remote call for
\* the next instance is made when the delay that follows the instance is
\* over; no delay follows the last instance.
C29_DelayBetweenInstances ==
    /\ [][NextInstanceCalled => pc = "delay"]_<<vars, server>>
    /\ [](pc = "delay" => idx < Len(onlineInstances))

\* The place in the remote listing of the k-th ONLINE instance of the pass.
ListedAt(k) == onlineInstances[k].name
\* The instances a call was answered for.
Called == {n \in Names : calls[n] # <<>>}

\* C30, a step of the pass: the answer it takes is the answer to the one call
\* awaited, a call for the instance the loop is at; the loop goes on to the
\* next ONLINE instance, which is listed after the current one.
C30_Step ==
    /\ \A n \in Names :
          calls'[n] # calls[n] =>
              /\ idx >= 1 /\ n = ListedAt(idx)
              /\ Len(calls'[n]) = Len(calls[n]) + 1
              /\ SubSeq(calls'[n], 1, Len(calls[n])) = calls[n]
              /\ \A m \in Names \ {n} : calls'[m] = calls[m]
    /\ idx' \in {idx, idx + 1}
    /\ (idx >= 1 /\ idx' = idx + 1 /\ idx' <= Len(onlineInstances'))
          => ListedAt(idx) < onlineInstances'[idx'].name

\* C30: one pass has at most one remote call or store write in flight, takes
\* the ONLINE instances in the order of the remote listing, and makes no call
\* for an instance before every call for the instances before it has
\* returned or failed.
C30_Sequential ==
    /\ [][C30_Step]_<<vars, server>>
    /\ [](\A n \in Called : \E k \in 1..idx : n = ListedAt(k))
    /\ [](Processing =>
            \A n \in Called : n <= ListedAt(idx))

\* C30, the case: the pass has made three calls for the first of two ONLINE
\* instances and is suspended on a call for the second.
C30_Witness ==
    /\ Processing
    /\ Len(onlineInstances) = 2
    /\ idx = 2
    /\ Len(calls[ListedAt(1)]) >= 3
    /\ calls[ListedAt(2)] # <<>>

\* This step makes the call of checkAndReconnectInstances that finds a pass
\* already invoked.
SecondCall == other.pc = "idle" /\ other'.pc # "idle"
\* A pass is suspended on a remote call, on the store or on the delay, and no
\* second pass was invoked.
OnePassSuspended == Suspended(pc) /\ other.pc = "idle"

\* C24: nothing serializes the invocations.  While a pass is suspended, a
\* request GET /check-instances can be taken, and every call of
\* checkAndReconnectInstances made beside a pass (by the cron job or by a
\* request) starts a second pass, suspended on its own listing fetch, and
\* leaves the first pass as it is.
C24_NothingSerializes ==
    /\ [](OnePassSuspended => ENABLED checkInstances)
    /\ [][SecondCall => (other'.pc = "fetchInstances" /\ UNCHANGED server)]_
          <<server, more>>

\* C24, the case: both passes have issued connect and logout for the same
\* instance of the same listing and both are suspended on their mark-offline
\* write for it.
C24_Witness ==
    /\ pc = "markInstanceOffline"
    /\ other.pc = "markInstanceOffline"
    /\ other.instances = instances
    /\ other.idx = idx
    /\ \A op \in {"connectInstance", "logoutInstance"} :
          /\ Issued(calls[instance.name], op)
          /\ Issued(other.calls[instance.name], op)

\* C28: with CRON_START 'true' any two consecutive firings of the cron job
\* are exactly 45 minutes apart; without it the job never fires.
C28_Every45Minutes ==
    /\ \A k \in 1..(Len(firings) - 1) : firings[k + 1] - firings[k] = 45
    /\ ~cronStart => firings = <<>>

\* How many calls of an operation the history holds.
Calls(log, op) == Count(OpsOf(log), op)
\* A logout call succeeded before the k-th entry of the history.
LoggedOutBefore(log, k) ==
    \E j \in 1..(k - 1) : log[j] = [op |-> "logoutInstance", res |-> "ok"]

\* C32, the store: a step of the pass that changes the user store changes the
\* record of the instance the loop is at, and sets its status to OFFLINE.
C32_Write ==
    users' # users =>
        /\ pc = "markInstanceOffline"
        /\ users'[instance.name] = "OFFLINE"
        /\ \A n \in Names \ {instance.name} : users'[n] = users[n]

\* C32: within one pass the user record of an instance is written at most
\* once, only to status OFFLINE, and only after a logout call for the same
\* instance succeeded earlier in the pass.
C32_WriteDiscipline ==
    /\ [][C32_Write]_<<vars, server, more>>
    /\ [](\A n \in Names :
            /\ Calls(calls[n], "markInstanceOffline") <= 1
            /\ \A k \in DOMAIN calls[n] :
                  calls[n][k].op = "markInstanceOffline"
                      => LoggedOutBefore(calls[n], k))
    /\ [](pc = "markInstanceOffline" =>
            /\ Calls(calls[instance.name], "markInstanceOffline") = 0
            /\ LoggedOutBefore(calls[instance.name],
                               Len(calls[instance.name]) + 1))

\* C32, the case: the pass has logged an instance out and has set its user
\* record, ONLINE before, to OFFLINE, beside another user's ONLINE record.
C32_Witness ==
    \E n \in Names :
        /\ Ok(calls[n], "logoutInstance")
        /\ MarkedOffline(n)
        /\ users[n] = "OFFLINE"
        /\ \E m \in Names \ {n} : users[m] = "ONLINE"

\* The listed instances whose connectionStatus is ONLINE.
ListedOnline == {n \in DOMAIN remote : remote[n].connectionStatus = "ONLINE"}

\* C33: in every pass no detail fetch, connect, logout or user-store write
\* is made for an instance whose listed connectionStatus is not ONLINE, and
\* the onlineInstances of the outcome of a pass that got the listing is the
\* number of listed instances with connectionStatus ONLINE.
C33_OnlyOnline ==
    /\ \A n \in Names : calls[n] # <<>> => n \in ListedOnline
    /\ ListFetched =>
          result.statistics.onlineInstances = Cardinality(ListedOnline)

\* The detail fetch found the state 'close' and the reconnect failed.
ReconnectFailed(log) ==
    /\ Len(log) >= 2
    /\ log[1] = [op |-> "fetchInstanceDetails", res |-> "close"]
    /\ log[2] = [op |-> "connectInstance", res |-> "error"]

\* C34: within one pass the connect call is made at most once for an ONLINE
\* instance, whatever the detail fetch and the connect call answer; a failed
\* reconnect of a 'close' instance is followed by no further connect or
\* logout call for that instance.
C34_ConnectOnce ==
    \A n \in Names :
        /\ Calls(calls[n], "connectInstance") <= 1
        /\ ReconnectFailed(calls[n]) => Len(calls[n]) = 2

\* C35: in every outcome of a pass each ONLINE instance is counted in at
\* most one of openConnections, closedConnections and loggedOut, so their
\* sum is at most onlineInstances, which is at most totalInstances, and
\* reconnected is at most closedConnections.  During the pass the three
\* counters together never exceed the number of instances taken up.
C35_Statistics ==
    /\ openCount + closedCount + loggedOutCount <= idx
    /\ reconnectedCount <= closedCount
    /\ pc = "returned" =>
          LET s == result.statistics IN
          /\ s.openConnections + s.closedConnections + s.loggedOut
                <= s.onlineInstances
          /\ s.onlineInstances <= s.totalInstances
          /\ s.reconnected <= s.closedConnections

\* C35, the case: a completed pass over two ONLINE instances, one counted
\* closed (its connect answered a pairing payload and it was logged out), one
\* counted logged out.
C35_Witness ==
    /\ pc = "returned"
    /\ result.success
    /\ result.statistics.onlineInstances = 2
    /\ result.statistics.closedConnections = 1
    /\ result.statistics.loggedOut = 1
    /\ \E n \in Names : /\ ConnectOf(calls[n]) = "base64"
                        /\ Ok(calls[n], "logoutInstance")

\* The calls of a pass are within their numbers: one listing fetch and, for
\* an instance, one detail fetch, two connect calls, one logout call and one
\* user-store write.
CallsBounded ==
    /\ Len(calls[0]) <= 1
    /\ \A n \in Names :
          /\ Calls(calls[n], "fetchInstanceDetails") <= 1
          /\ Calls(calls[n], "connectInstance") <= 2
          /\ Calls(calls[n], "logoutInstance") <= 1
          /\ Calls(calls[n], "markInstanceOffline") <= 1

\* C39: on every listing, when every remote call and store call returns or
\* fails in the end, a pass that was started returns an outcome, after at
\* most one listing fetch and, for each ONLINE instance, at most one detail
\* fetch, two connect calls, one logout call and one user-store write.
C39_Terminates ==
    /\ (pc = "fetchInstances") ~> (pc = "returned" /\ result # NoResult)
    /\ []CallsBounded

\* C39, the case: a pass over two ONLINE instances has returned; for one of
\* them it made a detail fetch, two connect calls, a logout call and a write
\* to the user store.
C39_Witness ==
    /\ pc = "returned"
    /\ Len(onlineInstances) = 2
    /\ \E n \in Names :
          /\ Calls(calls[n], "connectInstance") = 2
          /\ Calls(calls[n], "logoutInstance") = 1
          /\ Calls(calls[n], "markInstanceOffline") = 1

\* The request GET /check-individual-instance has its 200 answer.
Answered200 == one.pc = "responded" /\ one.status = 200
\* The answer of the request's call of an operation ("none": not made).
OneAnswer(op) ==
    IF Issued(one.calls, op) THEN FirstAnswer(one.calls, op) ELSE "none"

\* C40: in every 200 answer of GET /check-individual-instance,
\* needsReconnection is true exactly when the detail state fetched is
\* 'close'; reconnected = true only when the connect call succeeded without a
\* pairing payload; loggedOut = true only when a logout call succeeded; and
\* reconnected and loggedOut are never both true.
C40_ResultFlags ==
    Answered200 =>
        /\ one.needsReconnection \in {"true", "false"}
        /\ one.needsReconnection = "true"
              <=> OneAnswer("fetchInstanceDetails") = "close"
        /\ one.reconnected = "true" => OneAnswer("connectInstance") = "connected"
        /\ one.loggedOut = "true" => OneAnswer("logoutInstance") = "ok"
        /\ ~(one.reconnected = "true" /\ one.loggedOut = "true")

\* C40, the case: the detail state was 'close', the connect answered a
\* pairing payload and the logout succeeded: needsReconnection and loggedOut
\* are true, reconnected is false.
C40_Witness ==
    /\ Answered200
    /\ OneAnswer("fetchInstanceDetails") = "close"
    /\ OneAnswer("connectInstance") = "base64"
    /\ one.needsReconnection = "true"
    /\ one.reconnected = "false"
    /\ one.loggedOut = "true"

Stopped == proc = "running" /\ ~isRunning
\* This step sends a notification or starts a health poll.
Notifies ==
    \/ \E p \in PollIds : Len(polls'[p].notes) > Len(polls[p].notes)
    \/ \E c \in RecIds : Len(recs'[c].notes) > Len(recs[c].notes)
PollsHealth ==
    \/ \E p \in PollIds : polls'[p].pc = "get" /\ polls[p].pc # "get"
    \/ \E c \in RecIds : recs'[c].pc = "get" /\ recs[c].pc # "get"

\* C31: once stop() has returned no health poll is made, regular or
\* recovery-confirmation, no notification is sent and lastStatus,
\* consecutiveFailures, restartAttempted and lastRestartTime are not written,
\* also when stop() was called while a one-shot recovery-confirmation check
\* was pending.
C31_StopCancels ==
    [][Stopped => (~PollsHealth /\ ~Notifies /\ UNCHANGED wd)]_vars

\* A regular poll has failed, the third or a later one in a row.
StillFailing ==
    /\ proc = "running"
    /\ consecutiveFailures >= 3
    /\ \E p \in PollIds : polls[p].pc = "slackFailed"
\* The recovery trigger is being invoked, or a notification that asks for
\* manual intervention is being sent: the alert of handleHealthFailure, the
\* "Automatic Restart Failed" message, the "Recovery Failed" message.
Escalating ==
    \/ \E p \in PollIds :
          polls[p].pc \in {"restart", "slackManual", "slackRestartFailed"}
    \/ \E c \in RecIds : recs[c].pc = "slackFailed"
\* The service has answered 200, or the process is gone.
Recovering ==
    \/ proc # "running"
    \/ \E p \in PollIds : polls[p].result = "200"
    \/ \E c \in RecIds : recs[c].result = "200"

Restarting == {p \in PollIds : polls[p].pc = "restart"}

\* C37: the interval timer starts a checkHealth without waiting for the one
\* before, and for every interleaving of the overlapping polls at most one
\* invocation of the recovery trigger is in progress at any time.
C37_OneInvocation == Cardinality(Restarting) <= 1

\* The state the watchdog of C36 is left in: the failures are counted past the
\* first, the trigger is not recorded as attempted, and no activation is on its
\* way to the trigger.
Trapped ==
    /\ proc = "running"
    /\ consecutiveFailures >= 2
    /\ ~restartAttempted
    /\ \A p \in PollIds :
         polls[p].pc \notin {"slackAttempt", "restart", "slackRestartFailed"}
\* While no 200 is observed and the process runs, a step from that state leads
\* to that state, and no activation of checkHealth sends the alert: what the
\* bounded clock leaves out after the last state of a run is more of the same.
TrapIsClosed ==
    [][(Trapped /\ ~Recovering') =>
         /\ Trapped'
         /\ \A p \in PollIds : polls'[p].pc # "slackManual"]_vars

============================================================================
